---- MODULE Spec2Model ----
(***************************************************************************)
(* State-machine model of the OriginalBufferRestore element                *)
(* (generic/originalbuffer/src/originalbufferrestore/imp.rs).              *)
(*                                                                         *)
(* One action per handler of the element.  An action is the whole handler: *)
(* it reads the inputs and the answers of the peers (results of push,      *)
(* push_event, peer_query), updates the element state and records, in      *)
(* `emitted`, everything the handler sent out, in order.                   *)
(***************************************************************************)
EXTENDS Integers, Sequences, FiniteSets, TLC

\* ------------------------------------------------------------------ bounds
\* Number of segment events delivered on the sink pad in one behaviour.
MaxSegments == 2
\* The count of caps announcements of a run saturates at this value.
MaxCount == 2
\* Number of segment events delivered in the specification of the pads.
MaxPadSegments == 1
MaxBuffers == 3
MaxStatsMetas == 1
\* Ticks of the clock, and calls of buffer_in.
MaxClock == 3
MaxIns == 3
\* num_buffers: multiples of 2^32, and the rest.
MaxHigh == 1
MaxLow == 2
\* The bytes of the file, the offsets asked of fill and the length of its data.
FileSize == 2
MaxOffset == 3
MaxLen == 2

\* ------------------------------------------------------------- Option<T>
\* Option<T> is a sequence of length 0 (None) or 1 (Some(x)).
None == <<>>
Some(x) == <<x>>
IsSome(o) == Len(o) = 1
Unwrap(o) == o[1]

\* ------------------------------------------------------------------ caps
\* gst::Caps::new_empty()
EmptyCaps == [media |-> "EMPTY", width |-> 0, height |-> 0]
VideoCaps(w, h) == [media |-> "video/x-raw", width |-> w, height |-> h]
AudioCaps == [media |-> "audio/x-raw", width |-> 0, height |-> 0]
\* The fixed caps a caps event or an OriginalBufferMeta can carry.
FixedCaps == {VideoCaps(1280, 720), VideoCaps(640, 360), AudioCaps}

\* gst_video::VideoInfo::from_caps(&caps).ok()
VideoInfoFromCaps(caps) ==
    IF caps.media = "video/x-raw" /\ caps.width > 0 /\ caps.height > 0
    THEN Some([width |-> caps.width, height |-> caps.height])
    ELSE None

CapsStateDefault == [caps |-> EmptyCaps, vinfo |-> None]

StateDefault ==
    [sinkpad_caps |-> CapsStateDefault,
     meta_caps |-> CapsStateDefault,
     sinkpad_segment |-> None,
     modified_src_pad_requested |-> FALSE]

\* ---------------------------------------------------------------- events
TunnelEventName == "gst-original-buffer-forward-upstream-event"
TunnelQueryName == "gst-original-buffer-forward-query"

Event(type, caps, seqnum, name, inner) ==
    [type |-> type, caps |-> caps, seqnum |-> seqnum, name |-> name, inner |-> inner]
CapsEvent(caps) == Event("caps", caps, 0, "", None)
SegmentEvent(seqnum) == Event("segment", EmptyCaps, seqnum, "", None)
StreamStartEvent == Event("stream-start", EmptyCaps, 0, "originalbufferrestore", None)
EosEvent == Event("eos", EmptyCaps, 0, "", None)
FlushStartEvent == Event("flush-start", EmptyCaps, 0, "", None)
ReconfigureEvent == Event("reconfigure", EmptyCaps, 0, "", None)
QosEvent == Event("qos", EmptyCaps, 0, "", None)
CustomUpstream(name, inner) == Event("custom-upstream", EmptyCaps, 0, name, inner)

\* ----------------------------------------------------- buffers and metas
OriginalBufferMetaApi == "GstOriginalBufferMetaAPI"

Meta(api, tags, x, y, w, h) ==
    [api |-> api, tags |-> tags, x |-> x, y |-> y, w |-> w, h |-> h,
     original |-> None, caps |-> EmptyCaps]

Buffer(payload, timestamps, flags, metas) ==
    [payload |-> payload, timestamps |-> timestamps, flags |-> flags, metas |-> metas]

\* OriginalBufferMeta { original, caps }
OriginalBufferMeta(original, caps) ==
    [api |-> OriginalBufferMetaApi, tags |-> {}, x |-> 0, y |-> 0, w |-> 0, h |-> 0,
     original |-> Some(original), caps |-> caps]

\* A region of interest found on the transformed picture (tagged video, size).
RoiMeta == Meta("GstVideoRegionOfInterestMetaAPI", {"video", "orientation", "size"}, 64, 36, 128, 72)
\* A GstVideoMeta describes the memory layout (tagged memory, video, size).
VideoMeta == Meta("GstVideoMetaAPI", {"memory", "video", "colorspace", "size"}, 0, 0, 640, 360)
\* A meta without tags.
TimestampMeta == Meta("GstReferenceTimestampMetaAPI", {}, 0, 0, 0, 0)
\* A GstParentBufferMeta keeps another buffer alive (tagged memory-reference).
ParentBufferMeta == Meta("GstParentBufferMetaAPI", {"memory-reference"}, 0, 0, 0, 0)

\* inbuf.meta::<OriginalBufferMeta>()
HasOriginalBufferMeta(buf) ==
    \E i \in 1..Len(buf.metas) : buf.metas[i].api = OriginalBufferMetaApi
GetOriginalBufferMeta(buf) ==
    buf.metas[CHOOSE i \in 1..Len(buf.metas) : buf.metas[i].api = OriginalBufferMetaApi]

\* -------------------------------------------------------------- emission
\* One thing a handler sent out: a buffer or an event pushed on a pad (or a
\* query made to a peer), with the answer it got.  `ok` is the boolean result
\* (for a buffer: flow = "Ok"); `flow` the flow result of a buffer push.
Emit(pad, kind, item, ok, flow) ==
    [pad |-> pad, kind |-> kind, item |-> item, ok |-> ok, flow |-> flow]
EmitEvent(pad, event, ok) == Emit(pad, "event", event, ok, "-")
EmitBuffer(pad, buf, flow) == Emit(pad, "buffer", buf, flow = "Ok", flow)

\* ------------------------------------------------------------ sink_chain
\* The answers sink_chain gets from its peers and from the meta transform
\* functions: capsOk/segOk are the results of push_event on the src pad,
\* modFlow/srcFlow the flow results of the two pushes, scaleFail/copyFail the
\* meta APIs whose scale / copy transform fails.
ChainEnv(capsOk, segOk, modFlow, srcFlow, scaleFail, copyFail) ==
    [capsOk |-> capsOk, segOk |-> segOk, modFlow |-> modFlow, srcFlow |-> srcFlow,
     scaleFail |-> scaleFail, copyFail |-> copyFail]

\* What a handler did: the new state, what it sent out, its result, and (for
\* sink_chain) the meta transforms it tried, in order, and the buffer kept in
\* the OriginalBufferMeta as the handler left it (None: it did not get to it).
ChainResult(st, emitted, ret) ==
    [state |-> st, emitted |-> emitted, ret |-> ret, transforms |-> <<>>,
     original |-> None]

\* Mutant: the buffer is passed through on the src pad.
NoMetaPassThrough(st, inbuf) == ChainResult(st, <<EmitBuffer("src", inbuf, "Ok")>>, "Ok")

\* Mutant: the pending segment is taken before the meta is looked for.
NoMetaTakesSegment(st, inbuf) == ChainResult([st EXCEPT !.sinkpad_segment = None], <<>>, "Ok")

\* Buffer without OriginalBufferMeta: return Ok(FlowSuccess::Ok), nothing else.
NoMetaResult(st, inbuf) == ChainResult(st, <<>>, "Ok")

\* Mutant: the caps are announced for every buffer.
CapsChangedAlways(cached, caps) == TRUE

\* &meta_caps.caps != ometa.caps()
CapsChanged(cached, caps) == cached # caps

\* Mutant: the result of the push of the caps event is not looked at.
FormatStepUnchecked(st, caps, capsOk) ==
    IF CapsChanged(st.meta_caps.caps, caps)
    THEN [ok |-> TRUE,
          state |-> [st EXCEPT !.meta_caps =
                        [caps |-> caps, vinfo |-> VideoInfoFromCaps(caps)]],
          emitted |-> <<EmitEvent("src", CapsEvent(caps), capsOk)>>]
    ELSE [ok |-> TRUE, state |-> st, emitted |-> <<>>]

\* Mutant: the caps are cached before the caps event is pushed.
FormatStepStoresFirst(st, caps, capsOk) ==
    IF CapsChanged(st.meta_caps.caps, caps)
    THEN [ok |-> capsOk,
          state |-> [st EXCEPT !.meta_caps =
                        [caps |-> caps, vinfo |-> VideoInfoFromCaps(caps)]],
          emitted |-> <<EmitEvent("src", CapsEvent(caps), capsOk)>>]
    ELSE [ok |-> TRUE, state |-> st, emitted |-> <<>>]

\* The caps announcement: pushed when the caps of the meta differ from the
\* cached ones; the cache is updated only when the push succeeded.
FormatStep(st, caps, capsOk) ==
    IF CapsChanged(st.meta_caps.caps, caps)
    THEN IF ~capsOk
         THEN [ok |-> FALSE, state |-> st,
               emitted |-> <<EmitEvent("src", CapsEvent(caps), FALSE)>>]
         ELSE [ok |-> TRUE,
               state |-> [st EXCEPT !.meta_caps =
                             [caps |-> caps, vinfo |-> VideoInfoFromCaps(caps)]],
               emitted |-> <<EmitEvent("src", CapsEvent(caps), TRUE)>>]
    ELSE [ok |-> TRUE, state |-> st, emitted |-> <<>>]

\* ometa.original().copy()
BufferCopy(buf) == Buffer(buf.payload, buf.timestamps, buf.flags, buf.metas)

\* Mutant: BufferCopyFlags::FLAGS is left out.
CopyTimestampsOnly(outbuf, inbuf) == [outbuf EXCEPT !.timestamps = inbuf.timestamps]

\* inbuf.copy_into(outbuf, TIMESTAMPS | FLAGS, ..): the memory is not copied.
CopyTimestampsAndFlags(outbuf, inbuf) ==
    [outbuf EXCEPT !.timestamps = inbuf.timestamps, !.flags = inbuf.flags]

\* The scale transform of a meta with a size: coordinates are multiplied by
\* out/in, per axis (integer arithmetic).
ScaleMeta(meta, in_info, out_info) ==
    [meta EXCEPT !.x = (meta.x * out_info.width) \div in_info.width,
                 !.w = (meta.w * out_info.width) \div in_info.width,
                 !.y = (meta.y * out_info.height) \div in_info.height,
                 !.h = (meta.h * out_info.height) \div in_info.height]

\* Mutant: the two video infos are given in the other order.
VideoMetaTransformScaleSwapped(sink_vinfo, meta_vinfo) ==
    [in_info |-> meta_vinfo, out_info |-> sink_vinfo]

\* VideoMetaTransformScale::new(sink_vinfo, meta_vinfo): (in_info, out_info)
VideoMetaTransformScale(sink_vinfo, meta_vinfo) ==
    [in_info |-> sink_vinfo, out_info |-> meta_vinfo]

\* meta_vinfo.width() != sink_vinfo.width() || meta_vinfo.height() != sink_vinfo.height()
SizeDiffers(meta_vinfo, sink_vinfo) ==
    meta_vinfo.width # sink_vinfo.width \/ meta_vinfo.height # sink_vinfo.height

\* Whether the loop body tries the scale transform for this meta.
ScaleAttempted(meta, st) ==
    /\ "size" \in meta.tags
    /\ IsSome(st.meta_caps.vinfo)
    /\ IsSome(st.sinkpad_caps.vinfo)
    /\ SizeDiffers(Unwrap(st.meta_caps.vinfo), Unwrap(st.sinkpad_caps.vinfo))

\* One call of meta.transform(outbuf, ..): the meta, the transform, its result.
Transform(meta, kind, ok) == [meta |-> meta, kind |-> kind, ok |-> ok]

\* Mutant: the copy transform is made after a scale transform that succeeded.
MetaTransformsCopyToo(meta, st, env) ==
    IF meta.api = OriginalBufferMetaApi
    THEN <<>>
    ELSE IF "memory" \in meta.tags \/ "memory-reference" \in meta.tags
    THEN <<>>
    ELSE IF ScaleAttempted(meta, st)
    THEN <<Transform(meta, "scale", meta.api \notin env.scaleFail),
           Transform(meta, "copy", meta.api \notin env.copyFail)>>
    ELSE <<Transform(meta, "copy", meta.api \notin env.copyFail)>>

\* Mutant: the OriginalBufferMeta is transformed like any other meta.
MetaTransformsIdentityToo(meta, st, env) ==
    IF "memory" \in meta.tags \/ "memory-reference" \in meta.tags
    THEN <<>>
    ELSE IF ScaleAttempted(meta, st) /\ meta.api \notin env.scaleFail
    THEN <<Transform(meta, "scale", TRUE)>>
    ELSE IF ScaleAttempted(meta, st)
    THEN <<Transform(meta, "scale", FALSE),
           Transform(meta, "copy", meta.api \notin env.copyFail)>>
    ELSE <<Transform(meta, "copy", meta.api \notin env.copyFail)>>

\* The calls of meta.transform made by one iteration of
\* `for meta in inbuf.iter_meta()`.
MetaTransforms(meta, st, env) ==
    IF meta.api = OriginalBufferMetaApi
    THEN <<>>
    ELSE IF "memory" \in meta.tags \/ "memory-reference" \in meta.tags
    THEN <<>>
    ELSE IF ScaleAttempted(meta, st) /\ meta.api \notin env.scaleFail
    THEN <<Transform(meta, "scale", TRUE)>>
    ELSE IF ScaleAttempted(meta, st)
    THEN <<Transform(meta, "scale", FALSE),
           Transform(meta, "copy", meta.api \notin env.copyFail)>>
    ELSE <<Transform(meta, "copy", meta.api \notin env.copyFail)>>

\* What one call of meta.transform leaves on outbuf: a transform that fails
\* adds nothing.
ApplyTransform(outbuf, t, st) ==
    IF ~t.ok
    THEN outbuf
    ELSE IF t.kind = "scale"
    THEN LET s == VideoMetaTransformScale(Unwrap(st.sinkpad_caps.vinfo),
                                          Unwrap(st.meta_caps.vinfo))
         IN  [outbuf EXCEPT !.metas = Append(@, ScaleMeta(t.meta, s.in_info, s.out_info))]
    ELSE [outbuf EXCEPT !.metas = Append(@, t.meta)]

RECURSIVE ApplyTransforms(_, _, _)
ApplyTransforms(outbuf, ts, st) ==
    IF ts = <<>>
    THEN outbuf
    ELSE ApplyTransforms(ApplyTransform(outbuf, Head(ts), st), Tail(ts), st)

\* One iteration of `for meta in inbuf.iter_meta()`.
TransplantMeta(outbuf, meta, st, env) ==
    ApplyTransforms(outbuf, MetaTransforms(meta, st, env), st)

RECURSIVE TransplantMetas(_, _, _, _)
TransplantMetas(outbuf, metas, st, env) ==
    IF metas = <<>>
    THEN outbuf
    ELSE TransplantMetas(TransplantMeta(outbuf, Head(metas), st, env), Tail(metas), st, env)

\* The calls of meta.transform made by the whole loop, in order.
RECURSIVE AllTransforms(_, _, _)
AllTransforms(metas, st, env) ==
    IF metas = <<>>
    THEN <<>>
    ELSE MetaTransforms(Head(metas), st, env) \o AllTransforms(Tail(metas), st, env)

\* let mut outbuf = ...; copy_into(...); for meta in ... { ... }
Reconstruct(inbuf, st, env) ==
    LET original == Unwrap(GetOriginalBufferMeta(inbuf).original)
    IN  TransplantMetas(CopyTimestampsAndFlags(BufferCopy(original), inbuf),
                        inbuf.metas, st, env)

\* Mutant: the timestamps, the flags and the metas are put on the original.
OriginalAfterInPlace(inbuf, st, env) == Reconstruct(inbuf, st, env)

\* ometa.original() is a shared reference to the buffer kept in the meta:
\* copy() is the one call made on it; copy_into and the meta transforms write
\* to outbuf.
OriginalAfter(inbuf, st, env) == Unwrap(GetOriginalBufferMeta(inbuf).original)

\* Mutant: the pending segment is read (as_ref) instead of taken.
SegmentStepKeeps(st, segOk) ==
    IF IsSome(st.sinkpad_segment)
    THEN [ok |-> segOk, state |-> st,
          emitted |-> <<EmitEvent("src", Unwrap(st.sinkpad_segment), segOk)>>]
    ELSE [ok |-> TRUE, state |-> st, emitted |-> <<>>]

\* Mutant: the result of the push of the segment event is not looked at.
SegmentStepIgnoresFailure(st, segOk) ==
    IF IsSome(st.sinkpad_segment)
    THEN [ok |-> TRUE, state |-> [st EXCEPT !.sinkpad_segment = None],
          emitted |-> <<EmitEvent("src", Unwrap(st.sinkpad_segment), segOk)>>]
    ELSE [ok |-> TRUE, state |-> st, emitted |-> <<>>]

\* state.sinkpad_segment.take(), then push_event on the src pad.
SegmentStep(st, segOk) ==
    IF IsSome(st.sinkpad_segment)
    THEN [ok |-> segOk, state |-> [st EXCEPT !.sinkpad_segment = None],
          emitted |-> <<EmitEvent("src", Unwrap(st.sinkpad_segment), segOk)>>]
    ELSE [ok |-> TRUE, state |-> st, emitted |-> <<>>]

ModifiedSrcPadName == "modified_src_pad"

\* self.obj().child_by_name("modified_src_pad")
ChildByName(padset, name) == name \in padset

\* if state.modified_src_pad_requested { ... modified_src_pad.push(inbuf.clone()) }
ModifiedPush(st, padset, inbuf, modFlow) ==
    IF st.modified_src_pad_requested /\ ChildByName(padset, ModifiedSrcPadName)
    THEN <<EmitBuffer(ModifiedSrcPadName, inbuf, modFlow)>>
    ELSE <<>>

\* Mutant: a failure of the push on the src pad is returned as Error.
SrcPushResultAsError(modFlow, srcFlow) == IF srcFlow = "Ok" THEN "Ok" ELSE "Error"

\* Mutant: a failure of the push on the modified src pad is returned.
SrcPushResultCombined(modFlow, srcFlow) == IF modFlow # "Ok" THEN modFlow ELSE srcFlow

\* let _ = modified_src_pad.push(inbuf.clone()); self.src_pad.push(outbuf)
\* The result of sink_chain is the result of the push on the src pad.
SrcPushResult(modFlow, srcFlow) == srcFlow

\* Mutant: a meta transform that fails is an error of the buffer.
SinkChainResultStrict(st, padset, inbuf, env) ==
    IF ~HasOriginalBufferMeta(inbuf)
    THEN NoMetaResult(st, inbuf)
    ELSE LET f == FormatStep(st, GetOriginalBufferMeta(inbuf).caps, env.capsOk)
         IN  IF ~f.ok
             THEN ChainResult(f.state, f.emitted, "NotNegotiated")
             ELSE LET outbuf == Reconstruct(inbuf, f.state, env)
                      ts == AllTransforms(inbuf.metas, f.state, env)
                      s == SegmentStep(f.state, env.segOk)
                  IN  IF ~s.ok \/ \E i \in 1..Len(ts) : ~ts[i].ok
                      THEN [ChainResult(s.state, f.emitted \o s.emitted, "Error")
                                EXCEPT !.transforms = ts,
                                       !.original = Some(OriginalAfter(inbuf, f.state, env))]
                      ELSE [ChainResult(s.state,
                               f.emitted \o s.emitted
                                 \o ModifiedPush(s.state, padset, inbuf, env.modFlow)
                                 \o <<EmitBuffer("src", outbuf, env.srcFlow)>>,
                               SrcPushResult(env.modFlow, env.srcFlow))
                                EXCEPT !.transforms = ts,
                                       !.original = Some(OriginalAfter(inbuf, f.state, env))]

\* Mutant: the buffer is pushed on the modified src pad before the pending
\* segment is pushed on the src pad.
SinkChainResultModifiedFirst(st, padset, inbuf, env) ==
    IF ~HasOriginalBufferMeta(inbuf)
    THEN NoMetaResult(st, inbuf)
    ELSE LET f == FormatStep(st, GetOriginalBufferMeta(inbuf).caps, env.capsOk)
         IN  IF ~f.ok
             THEN ChainResult(f.state, f.emitted, "NotNegotiated")
             ELSE LET outbuf == Reconstruct(inbuf, f.state, env)
                      ts == AllTransforms(inbuf.metas, f.state, env)
                      s == SegmentStep(f.state, env.segOk)
                      m == ModifiedPush(s.state, padset, inbuf, env.modFlow)
                  IN  IF ~s.ok
                      THEN [ChainResult(s.state, f.emitted \o m \o s.emitted, "Error")
                                EXCEPT !.transforms = ts,
                                       !.original = Some(OriginalAfter(inbuf, f.state, env))]
                      ELSE [ChainResult(s.state,
                               f.emitted \o m \o s.emitted
                                 \o <<EmitBuffer("src", outbuf, env.srcFlow)>>,
                               SrcPushResult(env.modFlow, env.srcFlow))
                                EXCEPT !.transforms = ts,
                                       !.original = Some(OriginalAfter(inbuf, f.state, env))]

\* The whole of sink_chain: new state, what was sent out, and the result.
SinkChainResult(st, padset, inbuf, env) ==
    IF ~HasOriginalBufferMeta(inbuf)
    THEN NoMetaResult(st, inbuf)
    ELSE LET f == FormatStep(st, GetOriginalBufferMeta(inbuf).caps, env.capsOk)
         IN  IF ~f.ok
             THEN ChainResult(f.state, f.emitted, "NotNegotiated")
             ELSE LET outbuf == Reconstruct(inbuf, f.state, env)
                      ts == AllTransforms(inbuf.metas, f.state, env)
                      s == SegmentStep(f.state, env.segOk)
                  IN  IF ~s.ok
                      THEN [ChainResult(s.state, f.emitted \o s.emitted, "Error")
                                EXCEPT !.transforms = ts,
                                       !.original = Some(OriginalAfter(inbuf, f.state, env))]
                      ELSE [ChainResult(s.state,
                               f.emitted \o s.emitted
                                 \o ModifiedPush(s.state, padset, inbuf, env.modFlow)
                                 \o <<EmitBuffer("src", outbuf, env.srcFlow)>>,
                               SrcPushResult(env.modFlow, env.srcFlow))
                                EXCEPT !.transforms = ts,
                                       !.original = Some(OriginalAfter(inbuf, f.state, env))]

\* ------------------------------------------------------------ sink_event
\* The events delivered on the sink pad of the data-path specification, next
\* to the segment events: the caps of the transformed stream, and one event
\* that is neither caps nor segment.
SinkEvents == {CapsEvent(VideoCaps(640, 360)), EosEvent}

\* Forward to the modified src pad, when it was requested and is a child.
ModifiedForward(st, padset, event, modOk) ==
    IF st.modified_src_pad_requested /\ ChildByName(padset, ModifiedSrcPadName)
    THEN <<EmitEvent(ModifiedSrcPadName, event, modOk)>>
    ELSE <<>>

\* gst::Pad::event_default on the sink pad: the event goes to every src pad.
SinkEventDefault(padset, event, srcOk, modOk) ==
    <<EmitEvent("src", event, srcOk)>>
      \o (IF ChildByName(padset, ModifiedSrcPadName)
          THEN <<EmitEvent(ModifiedSrcPadName, event, modOk)>>
          ELSE <<>>)

\* Mutant: a pending segment is kept and the newer one is lost.
StoreSegmentKeepsFirst(pending, event) == IF IsSome(pending) THEN pending ELSE Some(event)

\* state.sinkpad_segment = Some(event.clone())
StoreSegment(pending, event) == Some(event)

BoolRet(b) == IF b THEN "true" ELSE "false"

AllOk(emitted) == \A i \in 1..Len(emitted) : emitted[i].ok

\* Mutant: the caps event fails when the modified_src_pad refuses it.
SinkEventResultPropagates(st, padset, event, srcOk, modOk) ==
    LET em == IF event.type \in {"caps", "segment"}
              THEN ModifiedForward(st, padset, event, modOk)
              ELSE SinkEventDefault(padset, event, srcOk, modOk)
    IN  ChainResult(IF event.type = "caps"
                    THEN [st EXCEPT !.sinkpad_caps =
                             [caps |-> event.caps, vinfo |-> VideoInfoFromCaps(event.caps)]]
                    ELSE IF event.type = "segment"
                    THEN [st EXCEPT !.sinkpad_segment = Some(event)]
                    ELSE st,
                    em, BoolRet(AllOk(em)))

SinkEventResult(st, padset, event, srcOk, modOk) ==
    IF event.type = "caps"
    THEN ChainResult([st EXCEPT !.sinkpad_caps =
                         [caps |-> event.caps, vinfo |-> VideoInfoFromCaps(event.caps)]],
                     ModifiedForward(st, padset, event, modOk), "true")
    ELSE IF event.type = "segment"
    THEN ChainResult([st EXCEPT !.sinkpad_segment = StoreSegment(st.sinkpad_segment, event)],
                     ModifiedForward(st, padset, event, modOk), "true")
    ELSE LET em == SinkEventDefault(padset, event, srcOk, modOk)
         IN  ChainResult(st, em, BoolRet(AllOk(em)))

\* ------------------------------------------------------------- src_event
SrcEvents ==
    {ReconfigureEvent, QosEvent,
     CustomUpstream(TunnelEventName, Some(ReconfigureEvent)),
     CustomUpstream("other-upstream-event", None)}

\* Mutant: no event is tunnelled.
IsTunnelledNever(event) == FALSE

\* Mutant: every event is tunnelled.
IsTunnelledAlways(event) == TRUE

\* event.type_() == Reconfigure || event.has_name("gst-original-buffer-forward-upstream-event")
IsTunnelled(event) == event.type = "reconfigure" \/ event.name = TunnelEventName

\* The envelope: a custom upstream event with the single field "event".
WrapEvent(event) == CustomUpstream(TunnelEventName, Some(event))

SrcEventResult(event, ok) ==
    IF IsTunnelled(event)
    THEN ChainResult(None, <<EmitEvent("sink", WrapEvent(event), ok)>>, BoolRet(ok))
    ELSE ChainResult(None, <<EmitEvent("sink", event, ok)>>, BoolRet(ok))

\* ------------------------------------------------------------ sink_query
Query(type, name, query, result, answered) ==
    [type |-> type, name |-> name, query |-> query, result |-> result,
     answered |-> answered]
CapsQuery == Query("caps", "", None, None, FALSE)
AllocationQuery == Query("allocation", "", None, None, FALSE)
TunnelQuery(q) == Query("custom", TunnelQueryName, Some(q), None, FALSE)

SinkQueries ==
    {CapsQuery, TunnelQuery(CapsQuery), TunnelQuery(AllocationQuery),
     Query("custom", TunnelQueryName, None, None, FALSE),
     Query("custom", "other-query", Some(CapsQuery), None, FALSE)}

\* What the peer of the src pad does to a query it is asked: it fills it in
\* when it answers it.
PeerAnswer(q, res) == [q EXCEPT !.answered = res]

\* Mutant: sink_query returns the answer of the peer.
SinkQueryResultPeerAnswer(query, res) ==
    IF query.type = "custom" /\ query.name = TunnelQueryName /\ IsSome(query.query)
    THEN [reply |-> [query EXCEPT !.query = Some(PeerAnswer(Unwrap(query.query), res)),
                                  !.result = Some(res)],
          emitted |-> <<Emit("src", "query", Unwrap(query.query), res, "-")>>,
          ret |-> BoolRet(res)]
    ELSE [reply |-> PeerAnswer(query, res),
          emitted |-> <<Emit("src", "query_default", query, res, "-")>>,
          ret |-> BoolRet(res)]

\* Result of sink_query: reply is the query as the caller sees it afterwards.
\* An emission of kind "query" is the peer_query of the tunnel; one of kind
\* "query_default" is the query handed to gst::Pad::query_default.
SinkQueryResult(query, res) ==
    IF query.type = "custom" /\ query.name = TunnelQueryName /\ IsSome(query.query)
    THEN [reply |-> [query EXCEPT !.query = Some(PeerAnswer(Unwrap(query.query), res)),
                                  !.result = Some(res)],
          emitted |-> <<Emit("src", "query", Unwrap(query.query), res, "-")>>,
          ret |-> "true"]
    ELSE [reply |-> PeerAnswer(query, res),
          emitted |-> <<Emit("src", "query_default", query, res, "-")>>,
          ret |-> BoolRet(res)]

\* ----------------------------------------------------------- change_state
Transitions == {"ReadyToPaused", "PausedToReady"}
\* gst::StateChange
AllTransitions ==
    {"NullToReady", "ReadyToPaused", "PausedToPlaying",
     "PlayingToPaused", "PausedToReady", "ReadyToNull"}

\* Mutant: the state is reset on every transition.
ChangeStateResultAlways(st, transition, parentOk) ==
    IF ~parentOk
    THEN ChainResult(st, <<>>, "Err")
    ELSE ChainResult(StateDefault, <<>>, "Ok")

\* let ret = self.parent_change_state(transition)?; reset on PausedToReady.
ChangeStateResult(st, transition, parentOk) ==
    IF ~parentOk
    THEN ChainResult(st, <<>>, "Err")
    ELSE IF transition = "PausedToReady"
    THEN ChainResult(StateDefault, <<>>, "Ok")
    ELSE ChainResult(st, <<>>, "Ok")

\* -------------------------------------------------------- request_new_pad
\* What request_new_pad has done so far: the element state and pads, the pads
\* of the element that have got a stream-start event, the steps made, what it
\* sent out, whether it panicked, and its result once it is decided ("-"
\* until then).
RequestCtx(st, padset, startedset, done) ==
    [state |-> st, pads |-> padset, started |-> startedset, done |-> done,
     emitted |-> <<>>, panicked |-> FALSE, ret |-> "-"]

\* Mutant: the pad is added to the element before the stream-start is pushed.
RequestStepsAttachFirst == <<"flag", "attach", "announce">>

\* The steps of request_new_pad for the "modified_src" template, in the order
\* of the code: the flag is tested and set under the borrow ("flag"); the pad
\* is built, activated and gets the stream-start event ("announce"); the pad
\* is added to the element ("attach").
RequestSteps == <<"flag", "announce", "attach">>

\* Mutant: the flag is set without being tested.
RequestFlagUntested(c, templ) ==
    IF templ # "modified_src"
    THEN [c EXCEPT !.ret = "None"]
    ELSE [c EXCEPT !.state.modified_src_pad_requested = TRUE]

\* match templ.name_template() { "modified_src" => { if flag { return None }
\* flag = true; drop(state); .. } _ => None }
RequestFlag(c, templ) ==
    IF templ # "modified_src"
    THEN [c EXCEPT !.ret = "None"]
    ELSE IF c.state.modified_src_pad_requested
    THEN [c EXCEPT !.ret = "None"]
    ELSE [c EXCEPT !.state.modified_src_pad_requested = TRUE]

\* modified_src_pad.set_active(true); modified_src_pad.push_event(stream_start)
\* The event is pushed on the pad this call built.
RequestAnnounce(c) ==
    [c EXCEPT !.emitted = Append(@, EmitEvent(ModifiedSrcPadName, StreamStartEvent, TRUE)),
              !.started = IF "attach" \in c.done THEN @ \cup {ModifiedSrcPadName} ELSE @]

\* self.obj().add_pad(&modified_src_pad).expect(..): add_pad refuses a pad
\* whose name is the name of a pad of the element, and expect() panics.
RequestAttach(c) ==
    IF ModifiedSrcPadName \in c.pads
    THEN [c EXCEPT !.panicked = TRUE, !.ret = "panic"]
    ELSE [c EXCEPT !.pads = @ \cup {ModifiedSrcPadName},
                   !.started = IF "announce" \in c.done
                               THEN @ \cup {ModifiedSrcPadName} ELSE @]

\* One step of request_new_pad; no step is made after the result is decided.
RequestStep(c, step, templ) ==
    IF c.ret # "-"
    THEN c
    ELSE LET d == IF step = "flag" THEN RequestFlag(c, templ)
                  ELSE IF step = "announce" THEN RequestAnnounce(c)
                  ELSE RequestAttach(c)
         IN  [d EXCEPT !.done = @ \cup {step}]

RECURSIVE RequestStepsFrom(_, _, _)
RequestStepsFrom(c, k, templ) ==
    IF k > Len(RequestSteps)
    THEN c
    ELSE RequestStepsFrom(RequestStep(c, RequestSteps[k], templ), k + 1, templ)

\* The result of request_new_pad: Some(pad) when no step returned before.
RequestRet(c) == IF c.ret = "-" THEN "Some" ELSE c.ret

\* The whole of request_new_pad.
RequestNewPadResult(st, padset, startedset, templ) ==
    LET c == RequestStepsFrom(RequestCtx(st, padset, startedset, {}), 1, templ)
    IN  [c EXCEPT !.ret = RequestRet(c)]

\* ------------------------------------------------------------ release_pad
\* Mutant: release_pad clears the flag.
ReleasePadClearsFlag(st) == [st EXCEPT !.modified_src_pad_requested = FALSE]

\* self.parent_release_pad(pad); self.obj().child_removed(..): the state of
\* the element is not borrowed.
ReleasePadResult(st) == st

\* ---------------------------------------------------------------- inputs
\* The original buffers the save side stored, the timing the transform leg
\* gave the transformed buffers, and the metas that leg attached to them.
Original1 == Buffer("original-1", 0, {"HEADER"}, <<>>)
Original2 == Buffer("original-2", 0, {"HEADER"}, <<TimestampMeta>>)
InTimings == {[timestamps |-> 1, flags |-> {}], [timestamps |-> 2, flags |-> {"DELTA_UNIT"}]}
AnnotationLists == {<<>>, <<RoiMeta>>, <<VideoMeta, RoiMeta, TimestampMeta, ParentBufferMeta>>}

\* Transformed buffers: without an OriginalBufferMeta, or with one (first in
\* the list of metas, where the save side put it) followed by the metas `a`.
BufsOver(timings, originals, capsset, annotations) ==
    {Buffer("transformed", t.timestamps, t.flags, a) :
        t \in timings, a \in annotations}
    \cup
    {Buffer("transformed", t.timestamps, t.flags, <<OriginalBufferMeta(o, c)>> \o a) :
        t \in timings, a \in annotations, o \in originals, c \in capsset}

\* The buffers of the data-path specification.
InBufs ==
    BufsOver(InTimings, {Original1},
             {VideoCaps(1280, 720), VideoCaps(640, 360)}, {<<RoiMeta>>})

FlowResults == {"Ok", "Flushing"}

\* The meta transforms that fail: none, or a choice per meta API.
NoTransformFails == {[scale |-> {}, copy |-> {}]}

\* The answers sink_chain can get in state st for inbuf: an answer is drawn
\* only for a call that sink_chain makes.
ChainEnvs(st, padset, inbuf, fails) ==
    IF ~HasOriginalBufferMeta(inbuf)
    THEN {ChainEnv(TRUE, TRUE, "Ok", "Ok", {}, {})}
    ELSE {ChainEnv(capsOk, segOk, modFlow, srcFlow, f.scale, f.copy) :
            capsOk \in IF CapsChanged(st.meta_caps.caps, GetOriginalBufferMeta(inbuf).caps)
                       THEN BOOLEAN ELSE {TRUE},
            segOk \in IF IsSome(st.sinkpad_segment) THEN BOOLEAN ELSE {TRUE},
            modFlow \in IF st.modified_src_pad_requested
                            /\ ChildByName(padset, ModifiedSrcPadName)
                        THEN {"Ok", "NotLinked"} ELSE {"Ok"},
            srcFlow \in FlowResults,
            f \in {g \in fails :
                     g.scale \cup g.copy \subseteq
                         {inbuf.metas[i].api : i \in 1..Len(inbuf.metas)}}}

\* ------------------------------------------------------ EncoderStats
\* An element given as the value of a property: its name and the types of
\* its factory.
Element(name, types) == [name |-> name, types |-> types]
X264Enc == Element("x264enc", {"VIDEO_ENCODER", "ENCODER"})
AvdecH264 == Element("avdec_h264", {"DECODER"})
H264Parse == Element("h264parse", {"PARSER"})

\* The element as with_class and constructed leave it.  encoder, decoder and
\* parser are the three Mutex<Option<gst::Element>>; current is the state of
\* the element; children and links are those of the bin; the other fields
\* describe the call made last: its name, input and result, the children it
\* added, the links it made and the transition it gave to the parent class.
EncoderStatsNew(encoder) ==
    [encoder |-> encoder, decoder |-> None, parser |-> None,
     current |-> "Null", children |-> <<>>, links |-> {}, poisoned |-> FALSE,
     op |-> "constructed", arg |-> None, ret |-> "-",
     added |-> <<>>, linked |-> {}, parent |-> None]

\* The type a factory must have for each property.
PropertyType(name) ==
    CASE name = "encoder" -> "VIDEO_ENCODER"
      [] name = "decoder" -> "DECODER"
      [] name = "parser" -> "PARSER"

\* set_property: a value that holds no element changes nothing; an element
\* whose factory has not the type of the property is a panic.
SetPropertyResult(es, name, value) ==
    LET done == [es EXCEPT !.op = "set_property", !.arg = <<name, value>>, !.ret = "-",
                           !.added = <<>>, !.linked = {}, !.parent = None]
    IN  IF ~IsSome(value)
        THEN done
        ELSE IF PropertyType(name) \notin Unwrap(value).types
        THEN [done EXCEPT !.ret = "panic", !.poisoned = TRUE]
        ELSE [done EXCEPT ![name] = value]

\* The elements prepare_pipeline adds to the bin, in the order of the calls
\* of add, by the name they have in the bin.
PipelineElements(es) ==
    <<"originalbuffersave", "identity", "tee0", "enc", "encq0">>
      \o (IF IsSome(es.decoder) /\ IsSome(es.parser) THEN <<"parser", "dec">> ELSE <<"dec">>)
      \o <<"encq1", "videoconvert", "capsfilter", "tee1", "originalbufferrestore",
           "queue_vmaf_0", "vmaf0", "queue_vmaf_1", "fakesink">>

\* The links prepare_pipeline makes itself; with decodebin3 the links behind
\* the decoder are made later, when its pad is added.
PipelineLinks(es) ==
    {<<"originalbuffersave", "enc">>, <<"enc", "identity">>, <<"identity", "tee0">>,
     <<"tee0", "encq0">>, <<"tee0", "encq1">>}
      \cup (IF IsSome(es.decoder) /\ IsSome(es.parser)
            THEN {<<"parser", "dec">>, <<"encq1", "parser">>, <<"dec", "videoconvert">>,
                  <<"videoconvert", "capsfilter">>, <<"capsfilter", "tee1">>,
                  <<"tee1", "originalbufferrestore">>,
                  <<"originalbufferrestore", "queue_vmaf_0">>, <<"queue_vmaf_0", "vmaf0">>,
                  <<"vmaf0", "fakesink">>, <<"tee1", "queue_vmaf_1">>,
                  <<"queue_vmaf_1", "vmaf0">>}
            ELSE {<<"encq1", "dec">>})

\* Whether the element is in the sequence.
Among(seq, x) == \E i \in 1..Len(seq) : seq[i] = x

\* Bin::add refuses an element whose name a child of the bin has already.
\* The longest prefix of `names` the bin accepts; a new originalbuffersave
\* gets a name of its own and is always accepted.
RECURSIVE AddedBeforeRefusal(_, _)
AddedBeforeRefusal(children, names) ==
    IF names = <<>>
    THEN <<>>
    ELSE IF Head(names) # "originalbuffersave" /\ Among(children, Head(names))
    THEN <<>>
    ELSE <<Head(names)>> \o AddedBeforeRefusal(Append(children, Head(names)), Tail(names))

\* prepare_pipeline: every failure in it is an expect or an unwrap, so it
\* returns Ok(()) or panics.  The encoder must be set; every add must be
\* accepted by the bin.
PreparePipelineResult(es) ==
    IF ~IsSome(es.encoder)
    THEN [es EXCEPT !.ret = "panic", !.poisoned = TRUE]
    ELSE LET names == PipelineElements(es)
             accepted == AddedBeforeRefusal(es.children, names)
         IN  IF accepted # names
             THEN [es EXCEPT !.children = @ \o accepted, !.added = accepted,
                             !.ret = "panic", !.poisoned = TRUE]
             ELSE [es EXCEPT !.children = @ \o names, !.added = names,
                             !.links = @ \cup PipelineLinks(es),
                             !.linked = PipelineLinks(es), !.ret = "Ok"]

\* gst::StateChange: the state a transition leaves and the one it reaches.
TransitionFrom(transition) ==
    CASE transition = "NullToReady" -> "Null"
      [] transition \in {"ReadyToPaused", "ReadyToNull"} -> "Ready"
      [] transition \in {"PausedToPlaying", "PausedToReady"} -> "Paused"
      [] transition = "PlayingToPaused" -> "Playing"
TransitionTo(transition) ==
    CASE transition \in {"NullToReady", "PausedToReady"} -> "Ready"
      [] transition \in {"ReadyToPaused", "PlayingToPaused"} -> "Paused"
      [] transition = "PausedToPlaying" -> "Playing"
      [] transition = "ReadyToNull" -> "Null"

\* self.parent_change_state(transition)
ParentChangeState(es, transition, parentOk) ==
    [es EXCEPT !.parent = Some(transition),
               !.ret = IF parentOk THEN "Ok" ELSE "Err",
               !.current = IF parentOk THEN TransitionTo(transition) ELSE @]

\* has_decoder != has_parser
HasMismatch(es) == IsSome(es.decoder) # IsSome(es.parser)

\* EncoderStats::change_state
EncoderStatsChangeState(es, transition, parentOk) ==
    LET called == [es EXCEPT !.op = "change_state", !.arg = transition, !.ret = "-",
                             !.added = <<>>, !.linked = {}, !.parent = None]
    IN  IF transition # "ReadyToPaused"
        THEN ParentChangeState(called, transition, parentOk)
        ELSE IF HasMismatch(called)
        THEN [called EXCEPT !.ret = "Err"]
        ELSE LET prepared == PreparePipelineResult(called)
             IN  IF prepared.ret = "panic"
                 THEN prepared
                 ELSE ParentChangeState(prepared, transition, parentOk)

\* --------------------------------------------------- VideoCompareMixer
\* The element as with_class and constructed leave it: the default Settings,
\* no child in the bin, no probe on the overlays.  probes counts the buffer
\* probes on the video_sink pad of each overlay.
VideoCompareMixerNew ==
    [backend |-> "CPU", split_screen |-> FALSE,
     current |-> "Null", children |-> <<>>,
     probes |-> [overlay0 |-> 0, overlay1 |-> 0], poisoned |-> FALSE,
     op |-> "constructed", arg |-> None, ret |-> "-", parent |-> None]

\* The elements prepare_pipeline and link_elements add to the bin, in the
\* order of the calls of add, by the name they have in the bin.
MixerElements(m) ==
    (IF m.split_screen /\ m.backend # "GL" THEN <<"crop0", "crop1">> ELSE <<>>)
      \o <<"compositor", "queue0", "queue1", "overlay0", "overlay1">>

\* VideoCompareMixer::prepare_pipeline: every add is followed by expect, so
\* it returns Ok(()) or panics at the first element the bin refuses; the
\* probes are added after the elements are linked.
MixerPreparePipelineResult(m) ==
    LET names == MixerElements(m)
        accepted == AddedBeforeRefusal(m.children, names)
    IN  IF accepted # names
        THEN [m EXCEPT !.children = @ \o accepted, !.ret = "panic", !.poisoned = TRUE]
        ELSE [m EXCEPT !.children = @ \o names,
                       !.probes = [o \in DOMAIN @ |-> @[o] + 1],
                       !.ret = "Ok"]

\* VideoCompareMixer::change_state
MixerChangeState(m, transition, parentOk) ==
    LET called == [m EXCEPT !.op = "change_state", !.arg = transition, !.ret = "-",
                            !.parent = None]
    IN  IF transition # "ReadyToPaused"
        THEN ParentChangeState(called, transition, parentOk)
        ELSE LET prepared == MixerPreparePipelineResult(called)
             IN  IF prepared.ret = "panic"
                 THEN prepared
                 ELSE ParentChangeState(prepared, transition, parentOk)

\* VideoCompareMixer::set_property
MixerSetProperty(m, name, value) ==
    [m EXCEPT ![name] = value, !.op = "set_property", !.arg = <<name, value>>,
              !.ret = "-", !.parent = None]

\* ------------------------------------------- VideoEncoderStatsMeta
\* VideoEncoderStats, by two of its fields; Default::default() is what
\* video_encoder_stats_meta_free leaves in a meta.
VideoEncoderStats(name, num_buffers) == [name |-> name, num_buffers |-> num_buffers]
VideoEncoderStatsDefault == VideoEncoderStats("", 0)
TestStats == VideoEncoderStats("test_encoder", 8)
OtherStats == VideoEncoderStats("x264enc", 16)

\* The memory: the buffers made so far, each by its index, and the call made
\* last.  A buffer is live until it is dropped; `from` is the buffer it is a
\* deep copy of (0: none).  A meta holds a VideoEncoderStats (`own`) and reads
\* its stats at `stats`, the place <<buffer, position>> of a meta, which is
\* its own place; `attached` is the value that was given to it when it was
\* made.
HeapNew == [buffers |-> <<>>, op |-> "-"]

NewBuffer(from) == [live |-> TRUE, from |-> from, metas |-> <<>>]
StatsMeta(place, own, value) == [stats |-> place, own |-> own, attached |-> value]

\* The VideoEncoderStats at a place; the metas of a dropped buffer were freed.
StatsAt(h, place) ==
    IF h.buffers[place[1]].live
    THEN h.buffers[place[1]].metas[place[2]].own
    ELSE VideoEncoderStatsDefault

\* gst::Buffer::with_size
WithSize(h) == [h EXCEPT !.buffers = Append(@, NewBuffer(0))]

\* gst_buffer_add_meta with video_encoder_stats_meta_init: the meta takes
\* the VideoEncoderStats it is given (ptr::write) and is put last on the
\* buffer, whatever metas the buffer has.
VideoEncoderStatsMetaAdd(h, b, value) ==
    [h EXCEPT !.buffers[b].metas =
                  Append(@, StatsMeta(<<b, Len(h.buffers[b].metas) + 1>>, value, value))]

\* Mutant: the new meta reads the VideoEncoderStats of the old one.
StatsCloneShared(h, b, meta) ==
    [h EXCEPT !.buffers[b].metas =
                  Append(@, StatsMeta(meta.stats, VideoEncoderStatsDefault,
                                      StatsAt(h, meta.stats)))]

\* VideoEncoderStatsMeta::add(dest, meta.stats.clone()): the new meta owns a
\* copy of the value the old one has now.
StatsClone(h, b, meta) == VideoEncoderStatsMetaAdd(h, b, StatsAt(h, meta.stats))

\* Mutant: the meta is added whatever the buffer carries.
VideoEncoderStatsMetaTransformAlways(h, dest, meta) == StatsClone(h, dest, meta)

\* video_encoder_stats_meta_transform: nothing when dest has such a meta.
VideoEncoderStatsMetaTransform(h, dest, meta) ==
    IF h.buffers[dest].metas # <<>>
    THEN h
    ELSE StatsClone(h, dest, meta)

\* The metas of one buffer transformed onto another, in their order
\* (gst_buffer_copy_into with the META flag).
RECURSIVE CopyMetas(_, _, _)
CopyMetas(h, dest, metas) ==
    IF metas = <<>>
    THEN h
    ELSE CopyMetas(VideoEncoderStatsMetaTransform(h, dest, Head(metas)), dest, Tail(metas))

\* Buffer::copy_deep: a new buffer, and the metas of the source onto it.
CopyDeep(h, src) ==
    LET made == [h EXCEPT !.buffers = Append(@, NewBuffer(src))]
    IN  CopyMetas(made, Len(made.buffers), h.buffers[src].metas)

\* drop of the last reference to a buffer: video_encoder_stats_meta_free
\* leaves VideoEncoderStats::default() in each of its metas, and the buffer
\* is gone.
DropBuffer(h, b) ==
    [h EXCEPT !.buffers[b].live = FALSE,
              !.buffers[b].metas = <<>>]

HeapCalled(h, name) == [h EXCEPT !.op = name]

\* ------------------------------------------------------ VideoEncoderStats
\* The fields of a VideoEncoderStats that buffer_in, buffer_out and
\* avg_processing_time use.  An Instant is a number of ticks of the monotonic
\* clock and a Duration a difference of two; num_buffers, a u64, is
\* [high, low]: the number high * 2^32 + low, with low < 2^32.
U64(high, low) == [high |-> high, low |-> low]

\* `n as u32`: the low 32 bits.
AsU32(n) == n.low

VideoEncoderStatsTimes ==
    [num_buffers |-> U64(0, 0),
     time_last_buffers |-> <<>>,
     max_buffers_inside |-> 0,
     total_processing_time |-> 0]

\* buffer_in at the instant `now`.
BufferIn(s, now) ==
    LET pushed == Append(s.time_last_buffers, now)
    IN  [s EXCEPT !.time_last_buffers = pushed,
                  !.max_buffers_inside = IF Len(pushed) > s.max_buffers_inside
                                         THEN Len(pushed)
                                         ELSE s.max_buffers_inside]

\* Mutant: the newest arrival is taken (pop_back).
BufferOutNewest(s, now) ==
    IF s.time_last_buffers # <<>>
    THEN [stats |-> [s EXCEPT !.time_last_buffers =
                                  SubSeq(s.time_last_buffers, 1, Len(s.time_last_buffers) - 1),
                              !.total_processing_time =
                                  s.total_processing_time
                                    + (now - s.time_last_buffers[Len(s.time_last_buffers)])],
          ret |-> "()"]
    ELSE [stats |-> s, ret |-> "panic"]

\* buffer_out at the instant `now`: ret is "panic" for
\* panic!("output buffer w/o input").
BufferOut(s, now) ==
    IF s.time_last_buffers # <<>>
    THEN [stats |-> [s EXCEPT !.time_last_buffers = Tail(s.time_last_buffers),
                              !.total_processing_time =
                                  s.total_processing_time + (now - Head(s.time_last_buffers))],
          ret |-> "()"]
    ELSE [stats |-> s, ret |-> "panic"]

\* avg_processing_time: Duration / u32 panics when the divisor is zero.
AvgProcessingTime(s) ==
    IF s.num_buffers # U64(0, 0)
    THEN IF AsU32(s.num_buffers) = 0
         THEN [duration |-> 0, ret |-> "panic"]
         ELSE [duration |-> s.total_processing_time \div AsU32(s.num_buffers),
               ret |-> "Duration"]
    ELSE [duration |-> 0, ret |-> "Duration"]

\* The VideoEncoderStats, the clock, and what was called last; ins, outs and
\* peak count the calls of buffer_in, those of buffer_out that returned, and
\* the longest time_last_buffers so far.
AccountNew ==
    [stats |-> VideoEncoderStatsTimes, now |-> 0, panicked |-> FALSE,
     op |-> "-", ret |-> "-", duration |-> 0, ins |-> 0, outs |-> 0, peak |-> 0]

\* ---------------------------------------------------------------- FileSrc
\* FileSrc::new(), and what was called last: its name and result, the offset
\* given to fill and the size it returned, what its seek did ("-" if it made none), and `filled`: the offset of the last fill that
\* returned Ok since the file was opened, plus the size it returned.
FileSrcNew ==
    [location |-> None, file |-> None, position |-> 0,
     op |-> "new", ret |-> "-", offset |-> 0, size |-> 0, sought |-> "-",
     filled |-> None]

FileSrcCalled(fs, name) ==
    [fs EXCEPT !.op = name, !.ret = "-", !.offset = 0, !.size = 0, !.sought = "-"]

\* The strings given to set_uri: a file URI, a URI that is not a file, and a
\* string that is no URI.
Uris == {None, Some("file:///a"), Some("http://host/a"), Some("a")}

\* Url::parse(uri).ok().and_then(|u| u.to_file_path().ok())
UriToFilePath(uri) == IF uri = "file:///a" THEN Some("/a") ELSE None

SetUri(fs, uri) ==
    LET called == FileSrcCalled(fs, "set_uri")
    IN  IF ~IsSome(uri)
        THEN [called EXCEPT !.location = None, !.ret = "true"]
        ELSE [called EXCEPT !.location = UriToFilePath(Unwrap(uri)),
                            !.ret = BoolRet(IsSome(UriToFilePath(Unwrap(uri))))]

\* start: File::open succeeds if `openOk`.
FileSrcStart(fs, openOk) ==
    LET closed == [FileSrcCalled(fs, "start") EXCEPT
                       !.file = None, !.position = 0, !.filled = None]
    IN  IF ~IsSome(closed.location)
        THEN [closed EXCEPT !.ret = "false"]
        ELSE IF openOk
        THEN [closed EXCEPT !.file = closed.location, !.ret = "true"]
        ELSE [closed EXCEPT !.ret = "false"]

FileSrcStop(fs) ==
    [FileSrcCalled(fs, "stop") EXCEPT
         !.file = None, !.position = 0, !.filled = None, !.ret = "true"]

\* Mutant: the position is set before the seek is known to have succeeded.
FileSrcFillEager(fs, offset, seekOk, readOk, size) ==
    LET called == [FileSrcCalled(fs, "fill") EXCEPT !.offset = offset]
        seeks == called.position # offset
        sought == IF seeks
                  THEN [called EXCEPT !.sought = IF seekOk THEN "ok" ELSE "failed",
                                      !.position = offset]
                  ELSE called
    IN  IF ~IsSome(called.file) \/ (seeks /\ ~seekOk) \/ ~readOk
        THEN [(IF IsSome(called.file) THEN sought ELSE called) EXCEPT !.ret = "Error"]
        ELSE [sought EXCEPT !.position = @ + size, !.ret = "Ok", !.size = size,
                            !.filled = Some(offset + size)]

\* fill(offset, data): f.seek succeeds if `seekOk`, f.read succeeds if
\* `readOk` and then returns `size` bytes.
FileSrcFill(fs, offset, seekOk, readOk, size) ==
    LET called == [FileSrcCalled(fs, "fill") EXCEPT !.offset = offset]
        seeks == called.position # offset
    IN  IF ~IsSome(called.file)
        THEN [called EXCEPT !.ret = "Error"]
        ELSE IF seeks /\ ~seekOk
        THEN [called EXCEPT !.sought = "failed", !.ret = "Error"]
        ELSE LET sought == IF seeks
                           THEN [called EXCEPT !.sought = "ok", !.position = offset]
                           ELSE called
             IN  IF readOk
                 THEN [sought EXCEPT !.position = @ + size, !.ret = "Ok", !.size = size,
                                     !.filled = Some(offset + size)]
                 ELSE [sought EXCEPT !.ret = "Error"]

\* ----------------------------------------------------------------- state
VARIABLES
    state,      \* AtomicRefCell<State>
    pads,       \* names of the pads of the element
    panicked,   \* a handler panicked (the element is poisoned)
    op,         \* the handler that ran last
    arg,        \* its input
    answers,    \* sink_chain: the answers it got (a ChainEnv)
    transforms, \* sink_chain: the meta transforms it tried, in order
    pc,         \* request_new_pad: the number of its steps made (0: not running)
    started,    \* names of the pads of the element that got a stream-start event
    ret,        \* its result
    reply,      \* sink_query: the query as the caller sees it afterwards
    emitted,    \* what it sent out, in order
    src_caps,   \* the caps last accepted by the peer of the src pad
    forwarded,  \* seqnums of the segment events pushed on the src pad so far
    superseded, \* seqnums of the segment events overwritten while pending
    segments,   \* number of segment events delivered on the sink pad
    run,        \* the buffers with OriginalBufferMeta chained since the last reset
    kept,       \* sink_chain: the buffer kept in the OriginalBufferMeta, afterwards
    owed,       \* a segment event was stored since the last reset, and neither it
                \* nor a newer one was pushed on the src pad with success
    holder,     \* the handler that is inside a push while it borrows the state
    aux_seen,   \* the caps and the seqnum of the segment event last pushed on the
                \* modified_src_pad since it was attached (kept by SpecAux)
    encoderstats, \* the EncoderStats bin
    heap,       \* buffers and the VideoEncoderStats of their metas
    account,    \* a VideoEncoderStats whose buffer_in / buffer_out are called
    mixer,      \* the VideoCompareMixer bin
    filesrc     \* the FileSrc

\* The variables of the OriginalBufferRestore element.
restore == <<state, pads, panicked, op, arg, answers, transforms, pc, started, ret, reply,
             emitted, src_caps, forwarded, superseded, segments, run, kept, owed, holder,
             aux_seen>>

\* The variables of the video stats plugin and of the file source.
stats == <<encoderstats, heap, account, mixer, filesrc>>

vars == <<restore, stats>>

\* run: what the src pad saw of the buffers with OriginalBufferMeta chained
\* since the last reset.  kind is "empty" (none yet), "uniform" (all of them
\* carried the caps `caps` and got past the caps announcement) or "mixed"
\* (any other history); announces counts the caps events pushed on the src pad.
\* The items of one kind sent on one pad.
SentOn(em, pad, kind) ==
    SelectSeq(em, LAMBDA e : e.pad = pad /\ e.kind = kind)
EventsOn(em, pad, type) ==
    SelectSeq(em, LAMBDA e : e.pad = pad /\ e.kind = "event" /\ e.item.type = type)

\* aux_seen of a pad that got no caps event and no segment event.
AuxDefault == [caps |-> EmptyCaps, segment |-> 0]

\* aux_seen after a handler sent `em`.
AuxAfter(seen, em) ==
    LET caps == EventsOn(em, ModifiedSrcPadName, "caps")
        segs == EventsOn(em, ModifiedSrcPadName, "segment")
    IN  [caps |-> IF caps = <<>> THEN seen.caps ELSE caps[Len(caps)].item.caps,
         segment |-> IF segs = <<>> THEN seen.segment ELSE segs[Len(segs)].item.seqnum]

RunDefault == [kind |-> "empty", caps |-> EmptyCaps, announces |-> 0]

Min(a, b) == IF a < b THEN a ELSE b

InitRestore ==
    /\ state = StateDefault
    /\ pads = {"sink", "src"}
    /\ panicked = FALSE
    /\ op = "constructed"
    /\ arg = None
    /\ answers = None
    /\ transforms = <<>>
    /\ pc = 0
    /\ started = {}
    /\ ret = "-"
    /\ reply = None
    /\ emitted = <<>>
    /\ src_caps = None
    /\ forwarded = {}
    /\ superseded = {}
    /\ segments = 0
    /\ run = RunDefault
    /\ kept = None
    /\ owed = FALSE
    /\ holder = None
    /\ aux_seen = AuxDefault

Init ==
    /\ InitRestore
    /\ encoderstats = EncoderStatsNew(None)
    /\ heap = HeapNew
    /\ account = AccountNew
    /\ mixer = VideoCompareMixerNew
    /\ filesrc = FileSrcNew

\* What the peer of the src pad has seen after a handler sent `em`.
Observed(em) ==
    LET accepted == SelectSeq(EventsOn(em, "src", "caps"), LAMBDA e : e.ok)
        segs == EventsOn(em, "src", "segment")
    IN  /\ src_caps' = IF accepted = <<>> THEN src_caps
                       ELSE Some(accepted[Len(accepted)].item.caps)
        /\ forwarded' = forwarded \cup {segs[i].item.seqnum : i \in 1..Len(segs)}

\* A segment event pushed on the src pad with success.
SegmentForwarded(e) ==
    e.pad = "src" /\ e.kind = "event" /\ e.item.type = "segment" /\ e.ok

Returned(name, input, result, em) ==
    /\ op' = name
    /\ arg' = input
    /\ ret' = result
    /\ emitted' = em

Called(name, input, result, em) ==
    /\ Returned(name, input, result, em)
    /\ Observed(em)

\* ---------------------------------------------------------------- actions
\* The run after one more buffer with OriginalBufferMeta carrying `caps`, for
\* which sink_chain pushed `n` caps events, one of them refused if `refused`.
RunAfter(r, caps, n, refused) ==
    IF refused \/ r.kind = "mixed" \/ (r.kind = "uniform" /\ r.caps # caps)
    THEN [kind |-> "mixed", caps |-> EmptyCaps, announces |-> 0]
    ELSE [kind |-> "uniform", caps |-> caps, announces |-> Min(r.announces + n, MaxCount)]

ChainStep(bufs, fails) ==
    /\ ~panicked
    /\ \E inbuf \in bufs :
         \E env \in ChainEnvs(state, pads, inbuf, fails) :
           \E r \in {SinkChainResult(state, pads, inbuf, env)} :
             \E caps \in {EventsOn(r.emitted, "src", "caps")} :
               /\ state' = r.state
               /\ Called("sink_chain", inbuf, r.ret, r.emitted)
               /\ run' = IF HasOriginalBufferMeta(inbuf)
                         THEN RunAfter(run, GetOriginalBufferMeta(inbuf).caps, Len(caps),
                                       \E i \in 1..Len(caps) : ~caps[i].ok)
                         ELSE run
               /\ answers' = Some(env)
               /\ transforms' = r.transforms
               /\ kept' = r.original
               /\ owed' = (owed /\ \A i \in 1..Len(r.emitted) :
                                     ~SegmentForwarded(r.emitted[i]))
               /\ reply' = None
               /\ UNCHANGED <<pads, panicked, pc, started, superseded, segments>>
               /\ UNCHANGED stats

\* sink_chain, the borrow of the state given back when it returns.
Chain(bufs, fails) == ChainStep(bufs, fails) /\ UNCHANGED <<holder, aux_seen>>

sink_chain == Chain(InBufs, NoTransformFails)

SinkEventStep(events) ==
    /\ ~panicked
    /\ \E event \in events :
         /\ event.type = "segment" => segments < MaxSegments
         /\ \E srcOk \in IF event.type \in {"caps", "segment"} THEN {TRUE} ELSE BOOLEAN,
               modOk \in IF ChildByName(pads, ModifiedSrcPadName) THEN BOOLEAN ELSE {TRUE} :
              \E r \in {SinkEventResult(state, pads, event, srcOk, modOk)} :
                /\ state' = r.state
                /\ Called("sink_event", event, r.ret, r.emitted)
                /\ segments' = IF event.type = "segment" THEN segments + 1 ELSE segments
                /\ superseded' =
                       IF event.type = "segment" /\ IsSome(state.sinkpad_segment)
                       THEN superseded \cup {Unwrap(state.sinkpad_segment).seqnum}
                       ELSE superseded
                /\ owed' = (owed \/ (event.type = "segment"
                                      /\ r.state.sinkpad_segment = Some(event)))
                /\ reply' = None /\ answers' = None /\ transforms' = <<>>
                /\ kept' = None
                /\ UNCHANGED <<pads, panicked, pc, started, run>>
                /\ UNCHANGED stats

\* sink_event, the borrow of the state given back when it returns.
SinkEvent(events) == SinkEventStep(events) /\ UNCHANGED <<holder, aux_seen>>

sink_event == SinkEvent(SinkEvents \cup {SegmentEvent(segments + 1)})

\* Mutant: src_event borrows the state before it looks at the event.
src_event_borrowing ==
    /\ ~panicked
    /\ \E event \in SrcEvents, ok \in BOOLEAN :
         LET r == SrcEventResult(event, ok)
         IN  /\ IF IsSome(holder)
                THEN panicked' = TRUE /\ Called("src_event", event, "already borrowed", <<>>)
                ELSE panicked' = panicked /\ Called("src_event", event, r.ret, r.emitted)
             /\ reply' = None /\ answers' = None /\ transforms' = <<>>
             /\ UNCHANGED <<state, pads, pc, started, superseded, segments, run>>
             /\ kept' = None
             /\ UNCHANGED <<owed, holder, aux_seen, stats>>

src_event ==
    /\ ~panicked
    /\ \E event \in SrcEvents, ok \in BOOLEAN :
         LET r == SrcEventResult(event, ok)
         IN  /\ Called("src_event", event, r.ret, r.emitted)
             /\ reply' = None /\ answers' = None /\ transforms' = <<>>
             /\ UNCHANGED <<state, pads, panicked, pc, started, superseded, segments, run>>
             /\ kept' = None
             /\ UNCHANGED <<owed, holder, aux_seen, stats>>

sink_query ==
    /\ ~panicked
    /\ \E query \in SinkQueries, res \in BOOLEAN :
         LET r == SinkQueryResult(query, res)
         IN  /\ Called("sink_query", query, r.ret, r.emitted)
             /\ reply' = Some(r.reply) /\ answers' = None /\ transforms' = <<>>
             /\ UNCHANGED <<state, pads, panicked, pc, started, superseded, segments, run>>
             /\ kept' = None
             /\ UNCHANGED <<owed, holder, aux_seen, stats>>

\* A successful PausedToReady deactivates the pads, which drops the sticky
\* events (the caps) their peers had accepted.
ChangeState(transitions) ==
    /\ ~panicked
    /\ \E transition \in transitions, parentOk \in BOOLEAN :
         \E r \in {ChangeStateResult(state, transition, parentOk)} :
             /\ state' = r.state
             /\ Returned("change_state", transition, r.ret, r.emitted)
             /\ IF parentOk /\ transition = "PausedToReady"
                THEN run' = RunDefault /\ src_caps' = None /\ owed' = FALSE
                ELSE UNCHANGED <<run, src_caps, owed>>
             /\ reply' = None /\ answers' = None /\ transforms' = <<>>
             /\ kept' = None
             /\ UNCHANGED <<pads, panicked, pc, started, forwarded, superseded, segments>>
             /\ UNCHANGED <<holder, aux_seen, stats>>

change_state == ChangeState(Transitions)

\* The whole of request_new_pad, in one step.
RequestNewPadStep ==
    /\ ~panicked
    /\ pc = 0
    /\ \E templ \in {"modified_src", "src"} :
         \E c \in {RequestNewPadResult(state, pads, started, templ)} :
             /\ state' = c.state
             /\ pads' = c.pads
             /\ started' = c.started
             /\ panicked' = c.panicked
             /\ Called("request_new_pad", templ, c.ret, c.emitted)
    /\ reply' = None /\ answers' = None /\ transforms' = <<>>
    /\ kept' = None
    /\ UNCHANGED <<pc, superseded, segments, run, owed, holder, stats>>

request_new_pad == RequestNewPadStep /\ UNCHANGED aux_seen

\* request_new_pad, one step at a time: the other handlers run in between.
\* ret is "-" while the call has not returned.
request_new_pad_step ==
    /\ ~panicked
    /\ \E templ \in IF pc = 0 THEN {"modified_src", "src"} ELSE {"modified_src"} :
         \E c \in {RequestStep(RequestCtx(state, pads, started,
                                          {RequestSteps[k] : k \in 1..pc}),
                               RequestSteps[pc + 1], templ)} :
             /\ state' = c.state
             /\ pads' = c.pads
             /\ started' = c.started
             /\ panicked' = c.panicked
             /\ IF c.ret # "-" \/ pc + 1 = Len(RequestSteps)
                THEN pc' = 0 /\ Called("request_new_pad", templ, RequestRet(c), c.emitted)
                ELSE pc' = pc + 1 /\ Called("request_new_pad", templ, "-", c.emitted)
    /\ reply' = None /\ answers' = None /\ transforms' = <<>>
    /\ kept' = None
    /\ UNCHANGED <<superseded, segments, run, owed, holder, aux_seen, stats>>

\* parent_release_pad, then child_removed: the element state is not touched.
\* Whether the parent class detaches the pad is left open.
release_pad ==
    /\ ~panicked
    /\ ModifiedSrcPadName \in pads
    /\ \E detached \in BOOLEAN :
         /\ pads' = IF detached THEN pads \ {ModifiedSrcPadName} ELSE pads
         /\ started' = IF detached THEN started \ {ModifiedSrcPadName} ELSE started
    /\ state' = ReleasePadResult(state)
    /\ Called("release_pad", ModifiedSrcPadName, "-", <<>>)
    /\ reply' = None /\ answers' = None /\ transforms' = <<>>
    /\ kept' = None
    /\ UNCHANGED <<panicked, pc, superseded, segments, run, owed, holder, aux_seen, stats>>

Next ==
    \/ sink_chain
    \/ sink_event
    \/ change_state
    \/ request_new_pad
    \/ release_pad

Spec == Init /\ [][Next]_vars

\* ------------------------------------------- the transplant of the metas
\* The same handlers, with every caps on the sink pad, every list of metas on
\* the buffers, and meta transforms that fail.
MetaBufs ==
    BufsOver({[timestamps |-> 1, flags |-> {}]}, {Original2}, FixedCaps, AnnotationLists)

TransformFails ==
    {[scale |-> sf, copy |-> cf] :
        sf \in SUBSET {RoiMeta.api},
        cf \in {{}, {RoiMeta.api}, {TimestampMeta.api}}}

sink_chain_metas == Chain(MetaBufs, TransformFails)

sink_event_caps == SinkEvent({CapsEvent(c) : c \in FixedCaps})

NextMetas ==
    \/ sink_chain_metas
    \/ sink_event_caps

SpecMetas == Init /\ [][NextMetas]_vars

\* ------------------------------------------- meta transforms that fail
\* The handlers of the data path, with buffers that carry metas whose
\* transforms fail.
FailBufs ==
    BufsOver({[timestamps |-> 1, flags |-> {}]}, {Original2},
             {VideoCaps(1280, 720)}, {<<RoiMeta, TimestampMeta>>})

sink_chain_fails == Chain(FailBufs, TransformFails)

NextFails ==
    \/ sink_chain_fails
    \/ sink_event
    \/ request_new_pad

SpecFails == Init /\ [][NextFails]_vars

\* ------------------------------------------------- pads and life cycle
\* Every handler of the element, request_new_pad one step at a time, over a
\* short stream: one buffer, the caps and one other event on the sink pad.
PadBufs ==
    BufsOver({[timestamps |-> 1, flags |-> {}]}, {Original1},
             {VideoCaps(1280, 720)}, {<<>>})

sink_chain_pads == Chain(PadBufs, NoTransformFails)

sink_event_pads ==
    SinkEvent(SinkEvents \cup {SegmentEvent(n) : n \in {segments + 1} \cap 1..MaxPadSegments})

change_state_all == ChangeState(AllTransitions)

NextPads ==
    \/ sink_chain_pads
    \/ sink_event_pads
    \/ src_event
    \/ sink_query
    \/ change_state_all
    \/ request_new_pad_step
    \/ release_pad

SpecPads == Init /\ [][NextPads]_vars

\* ------------------------------------------------ the borrow of the state
\* Two threads call the handlers: the streaming thread (sink_chain and the
\* serialized events of the sink pad) and the application (request_new_pad,
\* change_state, a flush-start event).  A handler that pushes while it borrows
\* the state stays inside that push until handler_return; the handlers of the
\* other thread run meanwhile, and so do src_event and sink_query, which the
\* peer of the src pad calls from inside that push or from any thread.

\* What a handler sends out while its `state` (the RefMut returned by
\* self.state.borrow_mut()) is alive: sink_chain and sink_event keep it to
\* their end, request_new_pad drops it before it builds the pad.
EmittedUnderBorrow(name, em) ==
    IF name \in {"sink_chain", "sink_event"} THEN em ELSE <<>>

Handler(name, thread) == [handler |-> name, thread |-> thread]

\* The handler that just ran on `thread` is inside a push with the borrow.
Holding(name, thread) ==
    holder' = IF EmittedUnderBorrow(name, emitted') # <<>>
              THEN Some(Handler(name, thread))
              ELSE None

\* The state is borrowed by a handler of another thread.
BorrowedElsewhere(thread) == IsSome(holder) /\ Unwrap(holder).thread # thread

\* self.state.borrow_mut() on an AtomicRefCell that is borrowed: the handler
\* panics before it does anything else.
BorrowPanics(name, input) ==
    /\ ~panicked
    /\ panicked' = TRUE
    /\ Called(name, input, "already borrowed", <<>>)
    /\ reply' = None /\ answers' = None /\ transforms' = <<>> /\ kept' = None
    /\ UNCHANGED <<state, pads, pc, started, superseded, segments, run, owed, holder,
                   aux_seen, stats>>

sink_chain_borrow ==
    \/ /\ holder = None
       /\ ChainStep(PadBufs, NoTransformFails)
       /\ Holding("sink_chain", "streaming")
       /\ UNCHANGED aux_seen
    \/ /\ BorrowedElsewhere("streaming")
       /\ \E inbuf \in {b \in PadBufs : HasOriginalBufferMeta(b)} :
            BorrowPanics("sink_chain", inbuf)

sink_event_borrow ==
    \/ /\ holder = None
       /\ SinkEventStep(SinkEvents \cup
                           {SegmentEvent(n) : n \in {segments + 1} \cap 1..MaxPadSegments})
       /\ Holding("sink_event", "streaming")
       /\ UNCHANGED aux_seen
    \/ /\ BorrowedElsewhere("streaming")
       /\ \E event \in SinkEvents : BorrowPanics("sink_event", event)

\* A flush-start event is not serialized with the data flow: the application
\* sends it while the streaming thread is inside a push.
sink_event_flush ==
    \/ /\ holder = None
       /\ SinkEventStep({FlushStartEvent})
       /\ Holding("sink_event", "application")
       /\ UNCHANGED aux_seen
    \/ /\ BorrowedElsewhere("application")
       /\ BorrowPanics("sink_event", FlushStartEvent)

request_new_pad_borrow ==
    \/ /\ holder = None
       /\ request_new_pad
    \/ /\ BorrowedElsewhere("application")
       /\ BorrowPanics("request_new_pad", "modified_src")

\* parent_change_state deactivates the pads before the state is reset, which
\* waits for the streaming thread to leave the handlers of the sink pad.
change_state_borrow ==
    /\ holder = None
    /\ change_state

\* The push returns and, with it, the handler: the borrow ends.
handler_return ==
    /\ IsSome(holder)
    /\ holder' = None
    /\ UNCHANGED <<state, pads, panicked, op, arg, answers, transforms, pc, started, ret,
                   reply, emitted, src_caps, forwarded, superseded, segments, run, kept,
                   owed, aux_seen, stats>>

NextBorrow ==
    \/ sink_chain_borrow
    \/ sink_event_borrow
    \/ sink_event_flush
    \/ request_new_pad_borrow
    \/ change_state_borrow
    \/ src_event
    \/ sink_query
    \/ handler_return

SpecBorrow == Init /\ [][NextBorrow]_vars

\* ------------------------------------------------ the modified_src_pad
\* The data path with every caps on the sink pad and a modified_src_pad that
\* is requested at any moment; aux_seen follows what that pad was sent.
sink_chain_aux ==
    /\ ChainStep(PadBufs, NoTransformFails)
    /\ aux_seen' = AuxAfter(aux_seen, emitted')
    /\ UNCHANGED holder

sink_event_aux ==
    /\ SinkEventStep({CapsEvent(c) : c \in FixedCaps} \cup {EosEvent} \cup
                        {SegmentEvent(n) : n \in {segments + 1} \cap 1..MaxPadSegments})
    /\ aux_seen' = AuxAfter(aux_seen, emitted')
    /\ UNCHANGED holder

request_new_pad_aux ==
    /\ RequestNewPadStep
    /\ aux_seen' = IF pads' # pads THEN AuxDefault ELSE aux_seen

NextAux ==
    \/ sink_chain_aux
    \/ sink_event_aux
    \/ request_new_pad_aux

SpecAux == Init /\ [][NextAux]_vars

\* ---------------------------------------------------------- EncoderStats
\* The EncoderStats bin: its properties are set and its state is changed,
\* each transition from the state the element is in.
InitEncoderStats ==
    /\ InitRestore
    /\ encoderstats \in {EncoderStatsNew(e) : e \in {None, Some(X264Enc)}}
    /\ heap = HeapNew
    /\ account = AccountNew
    /\ mixer = VideoCompareMixerNew
    /\ filesrc = FileSrcNew

encoderstats_set_property ==
    /\ ~encoderstats.poisoned
    /\ \E name \in {"decoder", "parser"}, value \in {None, Some(AvdecH264), Some(H264Parse)} :
         encoderstats' = SetPropertyResult(encoderstats, name, value)
    /\ UNCHANGED <<restore, heap, account, mixer, filesrc>>

encoderstats_change_state ==
    /\ ~encoderstats.poisoned
    /\ \E transition \in AllTransitions, parentOk \in BOOLEAN :
         /\ TransitionFrom(transition) = encoderstats.current
         /\ encoderstats' = EncoderStatsChangeState(encoderstats, transition, parentOk)
    /\ UNCHANGED <<restore, heap, account, mixer, filesrc>>

\* The VideoCompareMixer bin, driven the same way.
mixer_set_property ==
    /\ ~mixer.poisoned
    /\ \/ \E value \in {"CPU", "GL"} : mixer' = MixerSetProperty(mixer, "backend", value)
       \/ \E value \in BOOLEAN : mixer' = MixerSetProperty(mixer, "split_screen", value)
    /\ UNCHANGED <<restore, encoderstats, heap, account, filesrc>>

mixer_change_state ==
    /\ ~mixer.poisoned
    /\ \E transition \in AllTransitions, parentOk \in BOOLEAN :
         /\ TransitionFrom(transition) = mixer.current
         /\ mixer' = MixerChangeState(mixer, transition, parentOk)
    /\ UNCHANGED <<restore, encoderstats, heap, account, filesrc>>

NextEncoderStats ==
    \/ encoderstats_set_property
    \/ encoderstats_change_state
    \/ mixer_set_property
    \/ mixer_change_state

SpecEncoderStats == InitEncoderStats /\ [][NextEncoderStats]_vars

\* -------------------------------------------------- VideoEncoderStatsMeta
\* Buffers are made, given metas, copied and dropped.
LiveBuffers == {b \in 1..Len(heap.buffers) : heap.buffers[b].live}

with_size ==
    /\ Len(heap.buffers) < MaxBuffers
    /\ heap' = HeapCalled(WithSize(heap), "with_size")
    /\ UNCHANGED <<restore, encoderstats, account, mixer, filesrc>>

add ==
    /\ \E b \in LiveBuffers, value \in {TestStats, OtherStats} :
         /\ Len(heap.buffers[b].metas) < MaxStatsMetas
         /\ heap' = HeapCalled(VideoEncoderStatsMetaAdd(heap, b, value), "add")
    /\ UNCHANGED <<restore, encoderstats, account, mixer, filesrc>>

copy_deep ==
    /\ Len(heap.buffers) < MaxBuffers
    /\ \E src \in LiveBuffers :
         heap' = HeapCalled(CopyDeep(heap, src), "copy_deep")
    /\ UNCHANGED <<restore, encoderstats, account, mixer, filesrc>>

copy_into ==
    /\ \E src \in LiveBuffers :
       \E dest \in LiveBuffers \ {src} :
         heap' = HeapCalled(CopyMetas(heap, dest, heap.buffers[src].metas), "copy_into")
    /\ UNCHANGED <<restore, encoderstats, account, mixer, filesrc>>

drop ==
    /\ \E b \in LiveBuffers :
         heap' = HeapCalled(DropBuffer(heap, b), "drop")
    /\ UNCHANGED <<restore, encoderstats, account, mixer, filesrc>>

NextStatsMeta ==
    \/ with_size
    \/ add
    \/ copy_deep
    \/ copy_into
    \/ drop

SpecStatsMeta == Init /\ [][NextStatsMeta]_vars

\* ----------------------------------------------------- VideoEncoderStats
\* The probes of the encoder call buffer_in and buffer_out as buffers enter
\* and leave it, the clock advances in between, and the identity probe sets
\* num_buffers before the average is read.
clock_tick ==
    /\ ~account.panicked
    /\ account.now < MaxClock
    /\ account' = [account EXCEPT !.now = @ + 1, !.op = "tick", !.ret = "-"]
    /\ UNCHANGED <<restore, encoderstats, heap, mixer, filesrc>>

buffer_in ==
    /\ ~account.panicked
    /\ account.ins < MaxIns
    /\ LET s == BufferIn(account.stats, account.now)
       IN  account' = [account EXCEPT !.stats = s, !.op = "buffer_in", !.ret = "()",
                                      !.ins = @ + 1,
                                      !.peak = IF Len(s.time_last_buffers) > @
                                               THEN Len(s.time_last_buffers) ELSE @]
    /\ UNCHANGED <<restore, encoderstats, heap, mixer, filesrc>>

buffer_out ==
    /\ ~account.panicked
    /\ LET r == BufferOut(account.stats, account.now)
       IN  account' = [account EXCEPT !.stats = r.stats, !.op = "buffer_out",
                                      !.ret = r.ret,
                                      !.panicked = (r.ret = "panic"),
                                      !.outs = IF r.ret = "panic" THEN @ ELSE @ + 1]
    /\ UNCHANGED <<restore, encoderstats, heap, mixer, filesrc>>

avg_processing_time ==
    /\ ~account.panicked
    /\ \E high \in 0..MaxHigh, low \in 0..MaxLow :
         LET s == [account.stats EXCEPT !.num_buffers = U64(high, low)]
             r == AvgProcessingTime(s)
         IN  account' = [account EXCEPT !.stats = s, !.op = "avg_processing_time",
                                        !.ret = r.ret, !.duration = r.duration,
                                        !.panicked = (r.ret = "panic")]
    /\ UNCHANGED <<restore, encoderstats, heap, mixer, filesrc>>

NextAccount ==
    \/ clock_tick
    \/ buffer_in
    \/ buffer_out
    \/ avg_processing_time

SpecAccount == Init /\ [][NextAccount]_vars

\* ---------------------------------------------------------------- FileSrc
\* The calls the C side makes on a FileSrc, in any order; a read returns at
\* most the bytes asked for and at most what the file has left.
set_uri ==
    /\ \E uri \in Uris : filesrc' = SetUri(filesrc, uri)
    /\ UNCHANGED <<restore, encoderstats, heap, account, mixer>>

start ==
    /\ \E openOk \in BOOLEAN : filesrc' = FileSrcStart(filesrc, openOk)
    /\ UNCHANGED <<restore, encoderstats, heap, account, mixer>>

stop ==
    /\ filesrc' = FileSrcStop(filesrc)
    /\ UNCHANGED <<restore, encoderstats, heap, account, mixer>>

fill ==
    /\ \E offset \in 0..MaxOffset, len \in 1..MaxLen, seekOk \in BOOLEAN, readOk \in BOOLEAN :
         \E size \in 0..Min(len, IF offset < FileSize THEN FileSize - offset ELSE 0) :
           filesrc' = FileSrcFill(filesrc, offset, seekOk, readOk, size)
    /\ UNCHANGED <<restore, encoderstats, heap, account, mixer>>

NextFileSrc ==
    \/ set_uri
    \/ start
    \/ stop
    \/ fill

SpecFileSrc == Init /\ [][NextFileSrc]_vars

\* ================================================================ claims
\* The last handler was sink_chain on a buffer without / with OriginalBufferMeta.
ChainedWithoutMeta == op = "sink_chain" /\ ~HasOriginalBufferMeta(arg)
ChainedWithMeta == op = "sink_chain" /\ HasOriginalBufferMeta(arg)

\* The buffers the last handler pushed on the src pad, and on any pad.
SrcPushes == SentOn(emitted, "src", "buffer")
AnyPushes == SelectSeq(emitted, LAMBDA e : e.kind = "buffer")

C2_NoMetaFrame ==
    [][(op' = "sink_chain" /\ ~HasOriginalBufferMeta(arg')) =>
          /\ state' = state
          /\ src_caps' = src_caps
          /\ forwarded' = forwarded
          /\ \A i \in 1..Len(emitted') :
                emitted'[i].kind = "event" => emitted'[i].item.type \notin {"caps", "segment"}
      ]_vars

C2_Witness ==
    /\ ChainedWithoutMeta
    /\ IsSome(state.sinkpad_segment)
    /\ state.meta_caps.caps # EmptyCaps
    /\ state.sinkpad_caps.caps # EmptyCaps
    /\ state.modified_src_pad_requested

\* C3: the buffer pushed on the src pad for a buffer with OriginalBufferMeta
\* has the payload of the original kept in the meta and the timestamps and
\* flags of the incoming buffer; the incoming payload is not copied into it.
C3_TimingTransplant ==
    ChainedWithMeta =>
        \A i \in 1..Len(SrcPushes) :
            /\ SrcPushes[i].item.payload = Unwrap(GetOriginalBufferMeta(arg).original).payload
            /\ SrcPushes[i].item.payload # arg.payload
            /\ SrcPushes[i].item.timestamps = arg.timestamps
            /\ SrcPushes[i].item.flags = arg.flags

C3_Witness ==
    /\ ChainedWithMeta
    /\ Len(SrcPushes) = 1
    /\ arg.timestamps # Unwrap(GetOriginalBufferMeta(arg).original).timestamps
    /\ arg.flags # Unwrap(GetOriginalBufferMeta(arg).original).flags

\* C4: while every buffer with OriginalBufferMeta chained since the reset
\* carried the same caps F and got past the announcement, however many they
\* are, exactly one caps event has been pushed on the src pad.
C4_AnnounceOnce ==
    run.kind = "uniform" => run.announces = 1

\* A second (or later) buffer of such a run: it was pushed with no announcement.
C4_Witness ==
    /\ run.kind = "uniform"
    /\ ChainedWithMeta
    /\ Len(SrcPushes) = 1
    /\ EventsOn(emitted, "src", "caps") = <<>>

\* C5: a reconstructed buffer is pushed on the src pad only under the caps of
\* its OriginalBufferMeta, and these are the caps the peer of the src pad
\* accepted last (since the pads were last deactivated); no caps event follows
\* the buffer in the same call.
C5_OutputFormat ==
    (ChainedWithMeta /\ SrcPushes # <<>>) =>
        /\ src_caps = Some(GetOriginalBufferMeta(arg).caps)
        /\ state.meta_caps.caps = GetOriginalBufferMeta(arg).caps
        /\ emitted[Len(emitted)].kind = "buffer"
        /\ \A i \in 1..Len(emitted) :
              (emitted[i].kind = "event" /\ emitted[i].item.type = "caps") =>
                  /\ emitted[i].ok
                  /\ \A j \in 1..Len(emitted) : emitted[j].kind = "buffer" => i < j

\* A buffer pushed under caps announced by an earlier call.
C5_Witness ==
    /\ ChainedWithMeta
    /\ Len(SrcPushes) = 1
    /\ EventsOn(emitted, "src", "caps") = <<>>
    /\ superseded # {}

\* C6: when the caps of the meta differ from the cached ones, sink_chain
\* announces them first; when the peer refuses, sink_chain returns
\* NotNegotiated, pushes no buffer on any pad, and leaves the state (cached
\* caps and pending segment included) as it was, so that the caps still differ
\* for the next buffer.
C6_FormatRejected ==
    [][(op' = "sink_chain" /\ HasOriginalBufferMeta(arg')
          /\ state.meta_caps.caps # GetOriginalBufferMeta(arg').caps) =>
          /\ emitted' # <<>>
          /\ emitted'[1] = EmitEvent("src", CapsEvent(GetOriginalBufferMeta(arg').caps),
                                     Unwrap(answers').capsOk)
          /\ ~Unwrap(answers').capsOk =>
                /\ ret' = "NotNegotiated"
                /\ Len(emitted') = 1
                /\ state' = state
                /\ state'.meta_caps.caps # GetOriginalBufferMeta(arg').caps
      ]_vars

C6_Witness ==
    /\ ChainedWithMeta
    /\ ret = "NotNegotiated"
    /\ IsSome(state.sinkpad_segment)
    /\ state.meta_caps.caps # EmptyCaps
    /\ state.modified_src_pad_requested
    /\ ModifiedSrcPadName \in pads

\* The events and buffers a handler sent on the src pad.
OnSrc(em) == SelectSeq(em, LAMBDA e : e.pad = "src")

\* C7: sink_event sends no segment event on the src pad; sink_chain sends at
\* most one, the pending one, which was never sent on the src pad before; and
\* when a reconstructed buffer is pushed while a segment was pending, the
\* segment event is what the src pad got immediately before the buffer, and
\* nothing is pending afterwards.
C7_BoundaryOrdering ==
    [][/\ op' = "sink_event" => EventsOn(emitted', "src", "segment") = <<>>
       /\ LET segs == EventsOn(emitted', "src", "segment")
          IN  segs # <<>> =>
                /\ op' = "sink_chain"
                /\ Len(segs) = 1
                /\ state.sinkpad_segment = Some(segs[1].item)
                /\ segs[1].item.seqnum \notin forwarded
       /\ (op' = "sink_chain" /\ HasOriginalBufferMeta(arg')
             /\ SentOn(emitted', "src", "buffer") # <<>>) =>
             LET s == OnSrc(emitted')
             IN  /\ s[Len(s)].kind = "buffer"
                 /\ state'.sinkpad_segment = None
                 /\ IsSome(state.sinkpad_segment) =>
                       /\ Len(s) >= 2
                       /\ s[Len(s) - 1] = EmitEvent("src", Unwrap(state.sinkpad_segment), TRUE)
      ]_vars

\* A later buffer of the stream: a segment was forwarded before, none now.
C7_Witness ==
    /\ ChainedWithMeta
    /\ Len(SrcPushes) = 1
    /\ EventsOn(emitted, "src", "segment") = <<>>
    /\ forwarded # {}
    /\ superseded = {}

\* C8: a segment event that was overwritten while pending is never sent on
\* the src pad.
C8_NewerReplaces ==
    superseded \cap forwarded = {}

\* S1 was overwritten by S2, and S2 was forwarded.
C8_Witness ==
    /\ 1 \in superseded
    /\ 2 \in forwarded

\* C9: when the push of the pending segment event on the src pad fails,
\* sink_chain returns Error and pushes the buffer neither on the modified src
\* pad nor on the src pad.
C9_BoundaryForwardFailed ==
    (op = "sink_chain"
       /\ \E i \in 1..Len(emitted) :
             /\ emitted[i].pad = "src" /\ emitted[i].kind = "event"
             /\ emitted[i].item.type = "segment" /\ ~emitted[i].ok) =>
        /\ ret = "Error"
        /\ AnyPushes = <<>>

C9_Witness ==
    /\ ChainedWithMeta
    /\ ret = "Error"
    /\ state.modified_src_pad_requested
    /\ ModifiedSrcPadName \in pads
    /\ AnyPushes = <<>>

\* The metas of the buffer the last sink_chain pushed on the src pad.
OutMetas ==
    {SrcPushes[1].item.metas[j] : j \in 1..Len(SrcPushes[1].item.metas)}

\* A meta of the incoming buffer that the loop does not skip.
Transplanted(meta) ==
    /\ meta.api # OriginalBufferMetaApi
    /\ "memory" \notin meta.tags
    /\ "memory-reference" \notin meta.tags

\* The meta with its coordinates multiplied by num/den.
ScaledBy(meta, num, den) ==
    [meta EXCEPT !.x = (meta.x * num) \div den, !.w = (meta.w * num) \div den,
                 !.y = (meta.y * num) \div den, !.h = (meta.h * num) \div den]

\* A buffer was reconstructed with caps 1280x720 in its meta while the caps on
\* the sink pad were 640x360.
C10_Case ==
    /\ ChainedWithMeta
    /\ Len(SrcPushes) = 1
    /\ state.meta_caps.vinfo = Some([width |-> 1280, height |-> 720])
    /\ state.sinkpad_caps.vinfo = Some([width |-> 640, height |-> 360])

\* C10 (as stated): in that case a size-tagged meta, when its scale transform
\* succeeds, is on the output with its coordinates multiplied by 0.5, and a
\* meta without the size tag, when its copy succeeds, is on the output as it was.
C10_RescaleHalves ==
    C10_Case =>
        \A i \in 1..Len(arg.metas) :
            LET meta == arg.metas[i]
            IN  Transplanted(meta) =>
                  /\ ("size" \in meta.tags /\ meta.api \notin Unwrap(answers).scaleFail)
                        => ScaledBy(meta, 1, 2) \in OutMetas
                  /\ ("size" \notin meta.tags /\ meta.api \notin Unwrap(answers).copyFail)
                        => meta \in OutMetas

\* C10 (amended): in that case a size-tagged meta, when its scale transform
\* succeeds, is on the output rescaled from the size on the sink pad to the
\* size in the meta, its coordinates multiplied by 2; a meta without the size
\* tag, when its copy succeeds, is on the output as it was.
C10_RescaleDoubles ==
    C10_Case =>
        \A i \in 1..Len(arg.metas) :
            LET meta == arg.metas[i]
            IN  Transplanted(meta) =>
                  /\ ("size" \in meta.tags /\ meta.api \notin Unwrap(answers).scaleFail)
                        => /\ ScaledBy(meta, 2, 1) \in OutMetas
                           /\ meta \notin OutMetas
                  /\ ("size" \notin meta.tags /\ meta.api \notin Unwrap(answers).copyFail)
                        => meta \in OutMetas

C10_Witness ==
    /\ C10_Case
    /\ \E i \in 1..Len(arg.metas) : arg.metas[i] = RoiMeta
    /\ \E i \in 1..Len(arg.metas) : arg.metas[i] = TimestampMeta
    /\ Unwrap(answers).scaleFail = {}
    /\ Unwrap(answers).copyFail = {}
    /\ ScaledBy(RoiMeta, 2, 1) \in OutMetas

\* The last handler was sink_chain on a buffer with OriginalBufferMeta, and it
\* got past the caps announcement: the loop over the metas ran.
LoopRan == ChainedWithMeta /\ ret # "NotNegotiated"

\* The transforms of one kind the last sink_chain tried for a meta.
TransformsOf(meta, kind) ==
    SelectSeq(transforms, LAMBDA t : t.meta = meta /\ t.kind = kind)

\* The video infos of the caps in the meta of the incoming buffer and of the
\* caps on the sink pad are both known, and their width or height differ.
SizesKnownAndDiffer ==
    LET m == VideoInfoFromCaps(GetOriginalBufferMeta(arg).caps)
        k == state.sinkpad_caps.vinfo
    IN  /\ IsSome(m)
        /\ IsSome(k)
        /\ (Unwrap(m).width # Unwrap(k).width \/ Unwrap(m).height # Unwrap(k).height)

\* C11: when the loop over the metas of the incoming buffer ran, (a) no
\* transform was tried for the OriginalBufferMeta or for a meta tagged memory
\* or memory-reference, and such a meta is not on the output; for every other
\* meta, (b) the scale transform was tried (once) exactly when the meta is
\* size-tagged and both video infos are known and differ in width or height;
\* (c) the copy transform was tried exactly once when no scale was tried or
\* the scale failed; (d) and not at all when the scale succeeded.
C11_AnnotationPolicy ==
    LoopRan =>
        \A i \in 1..Len(arg.metas) :
            LET meta == arg.metas[i]
                scales == TransformsOf(meta, "scale")
                copies == TransformsOf(meta, "copy")
            IN  IF meta.api = OriginalBufferMetaApi
                     \/ meta.tags \cap {"memory", "memory-reference"} # {}
                THEN /\ scales = <<>>
                     /\ copies = <<>>
                     /\ SrcPushes # <<>> => meta \notin OutMetas
                ELSE /\ Len(scales) = (IF "size" \in meta.tags /\ SizesKnownAndDiffer
                                       THEN 1 ELSE 0)
                     /\ Len(copies) = (IF scales # <<>> /\ scales[1].ok THEN 0 ELSE 1)

\* A buffer with the four kinds of meta, whose scale transform failed.
C11_Witness ==
    /\ LoopRan
    /\ \E i \in 1..Len(arg.metas) : arg.metas[i] = VideoMeta
    /\ \E i \in 1..Len(arg.metas) : arg.metas[i] = ParentBufferMeta
    /\ TransformsOf(RoiMeta, "scale") = <<Transform(RoiMeta, "scale", FALSE)>>
    /\ Len(TransformsOf(RoiMeta, "copy")) = 1
    /\ Len(TransformsOf(TimestampMeta, "copy")) = 1

\* An emission without the metas of the buffer it carries.
WithoutMetas(e) ==
    IF e.kind = "buffer" THEN [e EXCEPT !.item.metas = <<>>] ELSE e

\* C12: whatever meta transforms fail, sink_chain returns what it returns, and
\* leaves the state and sends the events and buffers it sends, on the src pad
\* and on the modified src pad, when every transform succeeds (same buffer,
\* same state, same answers of the peers); the buffers differ in their metas
\* at most.
C12_TransformFailuresHidden ==
    [][(op' = "sink_chain" /\ HasOriginalBufferMeta(arg')) =>
          LET env == Unwrap(answers')
              good == SinkChainResult(state, pads, arg',
                                      [env EXCEPT !.scaleFail = {}, !.copyFail = {}])
          IN  /\ ret' = good.ret
              /\ state' = good.state
              /\ Len(emitted') = Len(good.emitted)
              /\ \A i \in 1..Len(emitted') :
                    WithoutMetas(emitted'[i]) = WithoutMetas(good.emitted[i])
      ]_vars

\* A scale and a copy transform failed, and the buffer went out on both pads
\* after the pending segment.
C12_Witness ==
    /\ ChainedWithMeta
    /\ ret = "Ok"
    /\ \E i \in 1..Len(transforms) : transforms[i].kind = "scale" /\ ~transforms[i].ok
    /\ \E i \in 1..Len(transforms) : transforms[i].kind = "copy" /\ ~transforms[i].ok
    /\ Len(AnyPushes) = 2
    /\ EventsOn(emitted, "src", "segment") # <<>>
    /\ RoiMeta \notin OutMetas
    /\ ScaledBy(RoiMeta, 2, 1) \notin OutMetas

\* The buffers the last handler pushed on the modified src pad.
ModifiedPushes == SentOn(emitted, ModifiedSrcPadName, "buffer")

\* Every event the last handler pushed on the src pad was accepted.
SrcEventsAccepted ==
    \A i \in 1..Len(emitted) :
        (emitted[i].pad = "src" /\ emitted[i].kind = "event") => emitted[i].ok

\* C13: when sink_chain on a buffer with OriginalBufferMeta had its caps and
\* segment events (if any) accepted, it pushed one buffer on the src pad and
\* returned the flow result of that push, whatever it is.
C13_PrimaryResultVerbatim ==
    (ChainedWithMeta /\ SrcEventsAccepted) =>
        /\ Len(SrcPushes) = 1
        /\ SrcPushes[1].flow = Unwrap(answers).srcFlow
        /\ ret = SrcPushes[1].flow

\* The push failed after a caps and a segment event that were accepted.
C13_Witness ==
    /\ ChainedWithMeta
    /\ EventsOn(emitted, "src", "caps") # <<>>
    /\ EventsOn(emitted, "src", "segment") # <<>>
    /\ SrcEventsAccepted
    /\ Len(SrcPushes) = 1
    /\ ret = "Flushing"

\* C14: when sink_chain pushed the incoming buffer on the modified src pad,
\* whatever the result of that push, it then pushed the reconstructed buffer
\* on the src pad and returned the result of this second push.
C14_AuxiliaryFailureIsolated ==
    (op = "sink_chain" /\ ModifiedPushes # <<>>) =>
        /\ Len(ModifiedPushes) = 1
        /\ ModifiedPushes[1].item = arg
        /\ ModifiedPushes[1].flow = Unwrap(answers).modFlow
        /\ Len(SrcPushes) = 1
        /\ emitted[Len(emitted)] = SrcPushes[1]
        /\ SrcPushes[1].flow = Unwrap(answers).srcFlow
        /\ ret = Unwrap(answers).srcFlow

\* The push on the modified src pad failed and sink_chain returned Ok.
C14_Witness ==
    /\ op = "sink_chain"
    /\ Len(ModifiedPushes) = 1
    /\ ~ModifiedPushes[1].ok
    /\ Len(SrcPushes) = 1
    /\ ret = "Ok"

\* The pads of the element next to the two always pads.
AuxiliaryPads == pads \ {"sink", "src"}

\* C15: a request for the "modified_src" template made while the flag is set
\* returns None and changes nothing: no pad is added, nothing is sent, the
\* state is as it was and the element keeps running.  A request made while
\* the flag is clear sets it, so that the next request is the rejected one,
\* and, when no pad of that name is attached, ends with the pad added and
\* Some(pad) returned.
C15_SingleCreation ==
    [][(op' = "request_new_pad" /\ arg' = "modified_src") =>
          /\ (pc = 0 /\ state.modified_src_pad_requested) =>
                /\ ret' = "None"
                /\ pc' = 0
                /\ state' = state
                /\ pads' = pads
                /\ started' = started
                /\ emitted' = <<>>
                /\ ~panicked'
          /\ (pc = 0 /\ ~state.modified_src_pad_requested) =>
                /\ state'.modified_src_pad_requested
                /\ ret' = "-"
          /\ (pc = Len(RequestSteps) - 1 /\ ModifiedSrcPadName \notin pads) =>
                /\ ret' = "Some"
                /\ pads' = pads \cup {ModifiedSrcPadName}
      ]_vars

\* A request was rejected while the pad of the first request is attached.
C15_Witness ==
    /\ op = "request_new_pad"
    /\ arg = "modified_src"
    /\ ret = "None"
    /\ state.modified_src_pad_requested
    /\ AuxiliaryPads = {ModifiedSrcPadName}
    /\ ~panicked

\* C16: sink_chain, run at any point of request_new_pad, pushes a buffer on
\* the modified src pad only when that pad has got its stream-start event.
C16_StreamStartFirst ==
    ModifiedPushes # <<>> => ModifiedSrcPadName \in started

C16_Witness ==
    /\ op = "sink_chain"
    /\ Len(ModifiedPushes) = 1
    /\ ModifiedSrcPadName \in started

\* sink_chain ran between two steps of request_new_pad, after the flag was
\* set and before the pad was added, and pushed on the src pad only.
C16_Interleaved ==
    /\ op = "sink_chain"
    /\ pc > 0
    /\ state.modified_src_pad_requested
    /\ ModifiedSrcPadName \notin pads
    /\ ModifiedPushes = <<>>
    /\ Len(SrcPushes) = 1

\* C17 (as stated): in every reachable state the element has at most one pad
\* next to sink and src, and no request_new_pad has panicked.
C17_SingleAuxiliaryPort ==
    /\ Cardinality(AuxiliaryPads) <= 1
    /\ ret # "panic"
    /\ ~panicked

\* C18: the flag goes from false to true only in request_new_pad for the
\* "modified_src" template (hence once between two resets), from true to
\* false only in a PausedToReady transition that succeeded; release_pad,
\* sink_event, sink_chain, src_event and sink_query leave it as it is.
C18_FlagLifecycle ==
    [][/\ (~state.modified_src_pad_requested /\ state'.modified_src_pad_requested) =>
             (op' = "request_new_pad" /\ arg' = "modified_src")
       /\ (state.modified_src_pad_requested /\ ~state'.modified_src_pad_requested) =>
             (op' = "change_state" /\ arg' = "PausedToReady" /\ ret' = "Ok")
       /\ op' \in {"release_pad", "sink_event", "sink_chain", "src_event", "sink_query"} =>
             state'.modified_src_pad_requested = state.modified_src_pad_requested
      ]_vars

\* The pad was released and removed, and the flag is still set.
C18_Witness ==
    /\ op = "release_pad"
    /\ AuxiliaryPads = {}
    /\ state.modified_src_pad_requested

\* C19: a PausedToReady transition whose parent handling succeeds leaves both
\* caps slots empty (empty caps, no video info), no pending segment and the
\* flag clear; any other transition, and any transition whose parent handling
\* fails, leaves the state as it was.
C19_LifecycleReset ==
    [][op' = "change_state" =>
          IF arg' = "PausedToReady" /\ ret' = "Ok"
          THEN /\ state'.sinkpad_caps = [caps |-> EmptyCaps, vinfo |-> None]
               /\ state'.meta_caps = [caps |-> EmptyCaps, vinfo |-> None]
               /\ state'.sinkpad_segment = None
               /\ ~state'.modified_src_pad_requested
          ELSE state' = state
      ]_vars

\* A reset of an element that had its pad requested, got a segment that was
\* never forwarded, and had announced caps on the src pad.
C19_Witness ==
    /\ op = "change_state"
    /\ arg = "PausedToReady"
    /\ ret = "Ok"
    /\ state = StateDefault
    /\ AuxiliaryPads = {ModifiedSrcPadName}
    /\ segments > 0
    /\ forwarded = {}

\* C20: for a reconfigure event, src_event pushes one event, on the sink pad:
\* the custom upstream event named gst-original-buffer-forward-upstream-event
\* whose field "event" is the reconfigure event; it sends nothing else and
\* returns the result of that push.
C20_EventTunnelling ==
    (op = "src_event" /\ arg.type = "reconfigure") =>
        /\ Len(emitted) = 1
        /\ emitted[1].pad = "sink"
        /\ emitted[1].kind = "event"
        /\ emitted[1].item = CustomUpstream(TunnelEventName, Some(arg))
        /\ ret = BoolRet(emitted[1].ok)

\* A reconfigure event whose tunnelled push was refused upstream.
C20_Witness ==
    /\ op = "src_event"
    /\ arg = ReconfigureEvent
    /\ ret = "false"
    /\ Len(emitted) = 1

\* The last handler was src_event on an event that is not a reconfigure event.
SrcEventOther == op = "src_event" /\ arg.type # "reconfigure"

\* The events the last handler sent that are tunnel envelopes around its input.
Wrapped == SelectSeq(emitted, LAMBDA e : e.kind = "event" /\ e.item = WrapEvent(arg))

\* C21 (as stated): an event on the src pad that is not a reconfigure event,
\* whatever its type and name, is handed unwrapped to the default handling;
\* src_event wraps no such event, so none is wrapped a second time.
C21_NeverWrapped ==
    SrcEventOther =>
        /\ Wrapped = <<>>
        /\ Len(emitted) = 1
        /\ emitted[1].item = arg

\* C21 (amended): an event on the src pad that is neither a reconfigure event
\* nor named gst-original-buffer-forward-upstream-event is handed unwrapped
\* to the default handling; an event of that name, which is the envelope made
\* by an element further downstream, is wrapped once more and pushed on the
\* sink pad.
C21_DefaultUnlessEnvelope ==
    SrcEventOther =>
        /\ Len(emitted) = 1
        /\ emitted[1].pad = "sink"
        /\ ret = BoolRet(emitted[1].ok)
        /\ IF arg.name = TunnelEventName
           THEN /\ emitted[1].item = CustomUpstream(TunnelEventName, Some(arg))
                /\ emitted[1].item.inner = Some(arg)
           ELSE /\ emitted[1].item = arg
                /\ Wrapped = <<>>

\* An envelope around a reconfigure event arrived and left in a second envelope.
C21_Witness ==
    /\ SrcEventOther
    /\ arg = CustomUpstream(TunnelEventName, Some(ReconfigureEvent))
    /\ Len(Wrapped) = 1
    /\ Unwrap(Unwrap(emitted[1].item.inner).inner) = ReconfigureEvent

\* The last handler was sink_query on a tunnel envelope with a query in it.
TunnelledQuery ==
    /\ op = "sink_query"
    /\ arg.type = "custom"
    /\ arg.name = TunnelQueryName
    /\ IsSome(arg.query)

\* The queries the last handler made to the peer of the src pad by peer_query.
PeerQueries == SelectSeq(emitted, LAMBDA e : e.kind = "query")

C23_ForwardAfterRelease == holder = None

\* C24: whatever the interleaving of sink_chain or sink_event on the streaming
\* thread with request_new_pad, change_state or a flush event of the
\* application, no handler panics because the state is already borrowed.
C24_NoBorrowPanic == ~(panicked /\ ret = "already borrowed")

\* The buffer kept in the OriginalBufferMeta of the buffer chained last, as it
\* was when the buffer was chained.
OriginalOf(inbuf) == Unwrap(GetOriginalBufferMeta(inbuf).original)

C26_IdentityStripped ==
    ChainedWithMeta =>
        \A i \in 1..Len(SrcPushes) :
            LET out == SrcPushes[i].item.metas
                own == OriginalOf(arg).metas
            IN  /\ \A j \in 1..Len(out) : out[j] # GetOriginalBufferMeta(arg)
                /\ Len(SelectSeq(out, LAMBDA m : m.api = OriginalBufferMetaApi))
                     = Len(SelectSeq(own, LAMBDA m : m.api = OriginalBufferMetaApi))

\* A buffer with an OriginalBufferMeta and other metas was chained, and its
\* other metas arrived on the buffer pushed on the src pad.
C26_Witness ==
    /\ ChainedWithMeta
    /\ Len(arg.metas) > 1
    /\ Len(SrcPushes) = 1
    /\ Len(SrcPushes[1].item.metas) > Len(OriginalOf(arg).metas)

\* C29: a segment event stored by sink_event is not lost: when sink_chain
\* pushes a buffer on the src pad, every segment event stored since the last
\* reset, or a newer one that replaced it, has been pushed on the src pad with
\* success before; so a segment event whose push failed is pushed again
\* before the next buffer.
C29_BoundaryNeverLost ==
    (ChainedWithMeta /\ SrcPushes # <<>>) => ~owed

\* The positions in `emitted` of the items that satisfy Test.
Positions(Test(_)) == {i \in 1..Len(emitted) : Test(emitted[i])}

IsSrcCaps(e) == e.pad = "src" /\ e.kind = "event" /\ e.item.type = "caps"
IsSrcSegment(e) == e.pad = "src" /\ e.kind = "event" /\ e.item.type = "segment"
IsSrcBuffer(e) == e.pad = "src" /\ e.kind = "buffer"
IsModifiedBuffer(e) == e.pad = ModifiedSrcPadName /\ e.kind = "buffer"

\* Every position of the first set is before every position of the second.
Before(P, Q) == \A i \in P, j \in Q : i < j

\* C30: for one buffer with OriginalBufferMeta, sink_chain pushes on the src
\* pad the caps event (if any) before the pending segment event (if any)
\* before the buffer; the push of the chained buffer on modified_src_pad comes
\* after both events, which were accepted, and before the push on the src pad.
C30_EmissionOrder ==
    ChainedWithMeta =>
        /\ Before(Positions(IsSrcCaps), Positions(IsSrcSegment))
        /\ Before(Positions(IsSrcSegment), Positions(IsSrcBuffer))
        /\ Before(Positions(IsSrcCaps), Positions(IsSrcBuffer))
        /\ Before(Positions(IsSrcCaps) \cup Positions(IsSrcSegment),
                  Positions(IsModifiedBuffer))
        /\ Before(Positions(IsModifiedBuffer), Positions(IsSrcBuffer))
        /\ Positions(IsModifiedBuffer) # {} =>
              /\ \A i \in Positions(IsSrcCaps) \cup Positions(IsSrcSegment) : emitted[i].ok
              /\ Positions(IsSrcBuffer) # {}
        /\ Cardinality(Positions(IsSrcCaps)) <= 1
        /\ Cardinality(Positions(IsSrcSegment)) <= 1
        /\ Cardinality(Positions(IsModifiedBuffer)) <= 1
        /\ Cardinality(Positions(IsSrcBuffer)) <= 1

\* All four were sent by one call of sink_chain.
C30_Witness ==
    /\ ChainedWithMeta
    /\ Len(emitted) = 4
    /\ IsSrcCaps(emitted[1])
    /\ IsSrcSegment(emitted[2])
    /\ IsModifiedBuffer(emitted[3])
    /\ IsSrcBuffer(emitted[4])

\* The last call on the EncoderStats bin was change_state(ReadyToPaused).
ReadyToPausedCalled ==
    encoderstats.op = "change_state" /\ encoderstats.arg = "ReadyToPaused"

\* The children of the bin are the whole pipeline, once.
PipelinePrepared ==
    /\ encoderstats.children = PipelineElements(encoderstats)
    /\ PipelineLinks(encoderstats) \subseteq encoderstats.links

\* C28: on ReadyToPaused, when one of decoder and parser is set and the other
\* is not, change_state returns StateChangeError, adds no element, makes no
\* link and does not call the parent class; when both or none are set, the
\* pipeline is prepared and the parent class is called.
C28_DecoderWithParser ==
    ReadyToPausedCalled =>
        IF HasMismatch(encoderstats)
        THEN /\ encoderstats.ret = "Err"
             /\ encoderstats.added = <<>>
             /\ encoderstats.linked = {}
             /\ encoderstats.parent = None
        ELSE /\ encoderstats.ret \in {"Ok", "Err"}
             /\ PipelinePrepared
             /\ encoderstats.parent = Some("ReadyToPaused")

\* The values of the VideoEncoderStats of the metas of a buffer, in order.
StatsOf(h, b) == [i \in 1..Len(h.buffers[b].metas) |-> StatsAt(h, h.buffers[b].metas[i].stats)]

\* Every meta of every live buffer has the VideoEncoderStats it was given.
MetasValid ==
    \A b \in LiveBuffers :
        \A i \in 1..Len(heap.buffers[b].metas) :
            StatsAt(heap, heap.buffers[b].metas[i].stats) = heap.buffers[b].metas[i].attached

\* A deep copy of a buffer with a meta has one meta, with the stats that were
\* attached to the source first, in a VideoEncoderStats of its own; the
\* source keeps its metas and their stats.
CopyDeepStep ==
    (heap'.op = "copy_deep" /\ heap' # heap) =>
        LET new == Len(heap'.buffers)
            src == heap'.buffers[new].from
        IN  /\ new = Len(heap.buffers) + 1
            /\ \A b \in 1..Len(heap.buffers) :
                 /\ heap'.buffers[b] = heap.buffers[b]
                 /\ StatsOf(heap', b) = StatsOf(heap, b)
            /\ heap.buffers[src].metas # <<>> =>
                  /\ Len(heap'.buffers[new].metas) = 1
                  /\ StatsOf(heap', new) = <<StatsOf(heap, src)[1]>>
                  /\ heap'.buffers[new].metas[1].stats = <<new, 1>>

\* The metas of one buffer copied onto another: a buffer that has such a meta
\* gets no second one, and a buffer that has none gets at most one, with the
\* stats of the first meta of a live buffer.
CopyIntoStep ==
    (heap'.op = "copy_into" /\ heap' # heap) =>
        /\ Len(heap'.buffers) = Len(heap.buffers)
        /\ \A b \in 1..Len(heap.buffers) :
             IF heap.buffers[b].metas # <<>>
             THEN /\ heap'.buffers[b] = heap.buffers[b]
                  /\ StatsOf(heap', b) = StatsOf(heap, b)
             ELSE \/ heap'.buffers[b] = heap.buffers[b]
                  \/ /\ Len(heap'.buffers[b].metas) = 1
                     /\ \E src \in LiveBuffers \ {b} :
                          /\ heap.buffers[src].metas # <<>>
                          /\ StatsOf(heap', b) = <<StatsOf(heap, src)[1]>>

\* C27: a VideoEncoderStatsMeta survives deep copies: the copy of a buffer
\* with the meta has one such meta, whose stats are those attached to the
\* source; the metas of the source are as they were; the meta of a copy keeps
\* its stats when the buffer it was copied from is dropped; the metas of a
\* buffer copied onto a buffer that has the meta add no second one.
C27_StatsMetaSurvivesCopies ==
    /\ []MetasValid
    /\ [][CopyDeepStep /\ CopyIntoStep]_vars

\* The copy of a copy has the stats attached to the first buffer, after both
\* the first buffer and its copy were dropped.
C27_Witness ==
    /\ Len(heap.buffers) = 3
    /\ ~heap.buffers[1].live
    /\ ~heap.buffers[2].live
    /\ heap.buffers[2].from = 1
    /\ heap.buffers[3].live
    /\ heap.buffers[3].from = 2
    /\ StatsOf(heap, 3) = <<TestStats>>
    /\ heap.op = "drop"

\* The last handler was sink_chain on a buffer with OriginalBufferMeta that
\* got past the caps and the segment step, with modified_src_pad attached.
ChainedWithAuxiliary ==
    /\ ChainedWithMeta
    /\ SrcPushes # <<>>
    /\ ModifiedSrcPadName \in pads

\* C31: while modified_src_pad is a pad of the element (requested, not
\* released), every buffer with OriginalBufferMeta that gets past the caps
\* and the segment step is pushed on it as it was chained, with all its
\* metas; also after PausedToReady and a restart.
C31_AuxiliaryGetsEveryUnit ==
    ChainedWithAuxiliary =>
        /\ Len(ModifiedPushes) = 1
        /\ ModifiedPushes[1].item = arg

\* A caps event was delivered on the sink pad.
CapsDelivered == op = "sink_event" /\ arg.type = "caps"

\* C32: a caps event on the sink pad replaces state.sinkpad_caps by the caps
\* and the video info derived from them (none when the caps are not video),
\* leaves meta_caps, sinkpad_segment and modified_src_pad_requested as they
\* were, sends nothing on the src pad and returns true, also when the
\* modified_src_pad refuses the event and when the caps are not video.
C32_CapsEventStoresAndSucceeds ==
    [][CapsDelivered' =>
          /\ state' = [state EXCEPT !.sinkpad_caps =
                           [caps |-> arg'.caps,
                            vinfo |-> IF arg'.caps.media = "video/x-raw"
                                      THEN Some([width |-> arg'.caps.width,
                                                 height |-> arg'.caps.height])
                                      ELSE None]]
          /\ OnSrc(emitted') = <<>>
          /\ ret' = "true"]_vars

C32_Witness ==
    /\ CapsDelivered
    /\ arg.caps = AudioCaps
    /\ state.sinkpad_caps = [caps |-> AudioCaps, vinfo |-> None]
    /\ IsSome(state.sinkpad_segment)
    /\ state.meta_caps.caps # EmptyCaps
    /\ \E i \in 1..Len(emitted) :
          emitted[i].pad = ModifiedSrcPadName /\ ~emitted[i].ok
    /\ ret = "true"

\* C33: every buffer pushed on the modified_src_pad comes after a
\* stream-start event on that pad and after the caps event and the segment
\* event most recently received on the sink pad, also when those were
\* received before the pad was requested.
C33_AuxiliaryStreamWellFormed ==
    (op = "sink_chain" /\ ModifiedPushes # <<>>) =>
        /\ ModifiedSrcPadName \in started
        /\ state.sinkpad_caps.caps # EmptyCaps => aux_seen.caps = state.sinkpad_caps.caps
        /\ segments > 0 => aux_seen.segment = segments

\* C34: while no request_new_pad is in progress, modified_src_pad_requested
\* is true exactly when a pad named modified_src_pad is attached to the
\* element, whatever request_new_pad, release_pad and change_state did before.
C34_FlagMatchesPad ==
    pc = 0 => (state.modified_src_pad_requested <=> ModifiedSrcPadName \in pads)

\* src_event or sink_query ran last.
FromDownstream == op \in {"src_event", "sink_query"}

\* C35: src_event and sink_query do not touch the state: called while
\* sink_chain or sink_event is inside a push with the state borrowed, they
\* can run, return their result without a borrow panic, and leave every field
\* of the state and the borrow as they were.
C35_ReentrancySafe ==
    /\ []((IsSome(holder) /\ ~panicked) => (ENABLED src_event /\ ENABLED sink_query))
    /\ [][(src_event \/ sink_query) =>
             /\ FromDownstream'
             /\ state' = state
             /\ holder' = holder
             /\ panicked' = panicked
             /\ ret' \in {"true", "false"}]_vars

C35_Witness ==
    /\ TunnelledQuery
    /\ ret = "true"
    /\ IsSome(holder)
    /\ Unwrap(holder).handler = "sink_chain"
    /\ ~panicked

\* A call of buffer_out that returned.
BufferOutReturned == account'.outs = account.outs + 1

\* C36: as long as buffer_out was never called on an empty queue, the length
\* of time_last_buffers is the number of buffer_in calls minus the number of
\* buffer_out calls, max_buffers_inside is the greatest length the queue ever
\* had (so at least its length, and never decreasing), every buffer_out takes
\* the oldest arrival and adds the time since then to total_processing_time,
\* which never decreases.
C36_InFlightAccounting ==
    /\ [](~account.panicked =>
            /\ Len(account.stats.time_last_buffers) = account.ins - account.outs
            /\ account.stats.max_buffers_inside = account.peak
            /\ account.stats.max_buffers_inside >= Len(account.stats.time_last_buffers))
    /\ [][/\ account'.stats.max_buffers_inside >= account.stats.max_buffers_inside
          /\ account'.stats.total_processing_time >= account.stats.total_processing_time
          /\ BufferOutReturned =>
                /\ account'.stats.time_last_buffers = Tail(account.stats.time_last_buffers)
                /\ account'.stats.total_processing_time =
                       account.stats.total_processing_time
                         + (account.now - Head(account.stats.time_last_buffers))]_vars

C36_Witness ==
    /\ account.op = "buffer_out"
    /\ account.ret = "()"
    /\ account.ins = 3
    /\ account.outs = 2
    /\ account.stats.time_last_buffers = <<2>>
    /\ account.stats.max_buffers_inside = 2
    /\ account.stats.total_processing_time = 3

\* C37: buffer_out called while time_last_buffers is empty does not panic: it
\* returns an error to its caller and leaves the statistics as they were.
C37_OutputWithoutInputIsError ==
    [][(account.stats.time_last_buffers = <<>> /\ buffer_out) =>
          /\ ~account'.panicked
          /\ account'.ret = "Err"
          /\ account'.stats = account.stats]_vars

\* C38: avg_processing_time never panics: it returns Duration::ZERO when
\* num_buffers is 0 and total_processing_time divided by num_buffers for every
\* other value, the non-zero multiples of 2^32 included (the quotient is zero
\* from 2^32 on, total_processing_time being below 2^32 ticks here).
C38_AverageNeverDividesByZero ==
    account.op = "avg_processing_time" =>
        /\ account.ret = "Duration"
        /\ account.duration =
               IF account.stats.num_buffers.high > 0 \/ account.stats.num_buffers.low = 0
               THEN 0
               ELSE account.stats.total_processing_time \div account.stats.num_buffers.low

\* C39: EncoderStats (with its encoder set, and decoder and parser both set
\* or both unset) and VideoCompareMixer can be cycled: no ReadyToPaused ends
\* in a panic of prepare_pipeline, the second one included, and no overlay
\* gets its probe twice.
C39_BinsCanBeCycled ==
    /\ (/\ ReadyToPausedCalled
        /\ IsSome(encoderstats.encoder)
        /\ ~HasMismatch(encoderstats)) => encoderstats.ret \in {"Ok", "Err"}
    /\ (mixer.op = "change_state" /\ mixer.arg = "ReadyToPaused") =>
           mixer.ret \in {"Ok", "Err"}
    /\ \A o \in DOMAIN mixer.probes : mixer.probes[o] <= 1

\* What C40 says of start, of stop, and of a fill that finds no file or needs
\* no seek: a fill without a file returns Error and changes no field; start
\* leaves position 0 and, when it fails, no file; stop returns true and leaves
\* no file and position 0; a fill at the position makes no seek.
FileSrcLifeCycle ==
    /\ (fill /\ ~IsSome(filesrc.file)) =>
           /\ filesrc'.ret = "Error"
           /\ filesrc'.location = filesrc.location
           /\ filesrc'.file = None
           /\ filesrc'.position = filesrc.position
    /\ start =>
           /\ filesrc'.position = 0
           /\ filesrc'.ret = "false" => filesrc'.file = None
           /\ filesrc'.ret = "true" => filesrc'.file = filesrc.location
    /\ stop =>
           /\ filesrc'.ret = "true"
           /\ filesrc'.file = None
           /\ filesrc'.position = 0
    /\ (fill /\ IsSome(filesrc.file) /\ filesrc'.offset = filesrc.position) =>
           filesrc'.sought = "-"

\* C40 (as stated): the life cycle above, and while a file is open the
\* position is the offset of the last successful fill plus the bytes it
\* returned, and a fill that fails, in its seek or in its read, leaves the
\* position as it was.
C40_FileSrcProtocol ==
    [][/\ FileSrcLifeCycle
       /\ (fill /\ IsSome(filesrc.file)) =>
              /\ IsSome(filesrc'.filled) => filesrc'.position = Unwrap(filesrc'.filled)
              /\ filesrc'.ret = "Error" => filesrc'.position = filesrc.position]_vars

\* C40 (amended): the life cycle above; a fill that returns n bytes leaves
\* the position at its offset plus n; a fill whose seek fails leaves the
\* position as it was; a fill whose read fails leaves the position at its
\* offset, which is where its seek, if it made one, has put the file.
C40_PositionFollowsTheFile ==
    [][/\ FileSrcLifeCycle
       /\ (fill /\ IsSome(filesrc.file)) =>
              /\ filesrc'.sought # "-" <=> filesrc'.offset # filesrc.position
              /\ IF filesrc'.ret # "Error"
                 THEN /\ filesrc'.position = filesrc'.offset + filesrc'.size
                      /\ filesrc'.filled = Some(filesrc'.position)
                 ELSE /\ filesrc'.position = IF filesrc'.sought = "ok"
                                             THEN filesrc'.offset
                                             ELSE filesrc.position
                      /\ filesrc'.filled = filesrc.filled]_vars

C40_Witness ==
    /\ filesrc.op = "fill"
    /\ IsSome(filesrc.file)
    /\ filesrc.ret = "Error"
    /\ filesrc.sought = "ok"
    /\ filesrc.position = 0
    /\ filesrc.filled = Some(2)
====
